---- MODULE Spec2Model ----
(***************************************************************************)
(* A model of the note loader, the weekly aggregator and the result writer *)
(* of tasker (src/tasker/files.py, src/tasker/tasker.py).                  *)
(*                                                                         *)
(* Text is modelled as Python models it: a str is a sequence of            *)
(* characters (one-character strings), compared by code point.  A datetime *)
(* is the record of its seven fields.  The period directories are          *)
(* functions from file name to file content.                               *)
(***************************************************************************)
EXTENDS Integers, Sequences, FiniteSets, TLC

VARIABLES
    root_exists,   \* Path(USB_DIR).exists()
    dir_exists,    \* dir_exists[d]: the period directory USB_DIR/d exists
    files,         \* files[d]: file name -> content, for the files of USB_DIR/d
    now,           \* the instant datetime.now() returns
    result,        \* what the last call returned or raised
    cli,           \* the run of the batch command line (tasktriage/cli.py main)
    environ,       \* os.environ and what the configured paths point at
    session,       \* st.session_state and what the last script run handled
    rounds,        \* the notes the daily loop has loaded so far, in order
    run,           \* the run of main() of tasker/tasker.py that waits on analyze_tasks
    loading        \* the call of load_task_notes that waits on extract_text_from_image

vars == <<root_exists, dir_exists, files, now, result, cli, environ, session,
          rounds, run, loading>>

----------------------------------------------------------------------------
(* Characters and str operations.                                          *)

DigitChars == <<"0","1","2","3","4","5","6","7","8","9">>
UpperChars == <<"A","B","C","D","E","F","G","H","I","J","K","L","M","N","O","P","Q","R","S","T","U","V","W","X","Y","Z">>
LowerChars == <<"a","b","c","d","e","f","g","h","i","j","k","l","m","n","o","p","q","r","s","t","u","v","w","x","y","z">>

InSeq(c, s) == \E i \in 1..Len(s) : s[i] = c
IndexIn(c, s) == CHOOSE i \in 1..Len(s) : s[i] = c

\* Python's ord(c) for the characters file names and reports are made of.
ord(c) ==
    IF InSeq(c, DigitChars) THEN 47 + IndexIn(c, DigitChars)
    ELSE IF InSeq(c, UpperChars) THEN 64 + IndexIn(c, UpperChars)
    ELSE IF InSeq(c, LowerChars) THEN 96 + IndexIn(c, LowerChars)
    ELSE CASE c = "\n" -> 10
           [] c = " "  -> 32
           [] c = "#"  -> 35
           [] c = ","  -> 44
           [] c = "-"  -> 45
           [] c = "."  -> 46
           [] c = "="  -> 61
           [] c = "_"  -> 95

IsDigit(c) == InSeq(c, DigitChars)
DigitVal(c) == IndexIn(c, DigitChars) - 1

\* str.upper() / str.lower() of one character.
upper(c) == IF InSeq(c, LowerChars) THEN UpperChars[IndexIn(c, LowerChars)] ELSE c
lower(c) == IF InSeq(c, UpperChars) THEN LowerChars[IndexIn(c, UpperChars)] ELSE c

\* str.capitalize(): first character upper-cased, the rest lower-cased.
capitalize(s) ==
    [i \in 1..Len(s) |-> IF i = 1 THEN upper(s[i]) ELSE lower(s[i])]

\* a < b for two str: the first differing code point decides, a proper
\* prefix is smaller.
str_lt(a, b) ==
    LET m == IF Len(a) < Len(b) THEN Len(a) ELSE Len(b)
        diff == {i \in 1..m : a[i] # b[i]}
    IN IF diff = {} THEN Len(a) < Len(b)
       ELSE LET k == CHOOSE i \in diff : \A j \in diff : i <= j
            IN ord(a[k]) < ord(b[k])

\* s.endswith(t)
endswith(s, t) ==
    /\ Len(t) <= Len(s)
    /\ SubSeq(s, Len(s) - Len(t) + 1, Len(s)) = t

\* t in s
contains(s, t) ==
    \E i \in 1..(Len(s) - Len(t) + 1) : SubSeq(s, i, i + Len(t) - 1) = t

\* s.rfind("."), counted from 1; 0 when s holds no "."
rfind_dot(s) ==
    LET dots == {i \in 1..Len(s) : s[i] = "."}
    IN IF dots = {} THEN 0 ELSE CHOOSE i \in dots : \A j \in dots : j <= i

\* s.split(".")[0]
split_dot_first(s) ==
    LET dots == {i \in 1..Len(s) : s[i] = "."}
    IN IF dots = {} THEN s
       ELSE SubSeq(s, 1, (CHOOSE i \in dots : \A j \in dots : i <= j) - 1)

\* PurePath.suffix and PurePath.stem of a file name: the last "." splits the
\* name unless it is the first or the last character.
suffix(name) ==
    LET i == rfind_dot(name)
    IN IF 1 < i /\ i < Len(name) THEN SubSeq(name, i, Len(name)) ELSE <<>>

stem(name) ==
    LET i == rfind_dot(name)
    IN IF 1 < i /\ i < Len(name) THEN SubSeq(name, 1, i - 1) ELSE name

\* c * n
repeat(c, n) == [i \in 1..n |-> c]

\* sep.join(parts)
RECURSIVE join(_, _)
join(sep, parts) ==
    IF Len(parts) = 0 THEN <<>>
    ELSE IF Len(parts) = 1 THEN parts[1]
    ELSE parts[1] \o sep \o join(sep, Tail(parts))

\* zero-padded decimal of n in w digits, as strftime prints the two-digit
\* fields %m, %d, %H, %M and %S
RECURSIVE zpad(_, _)
zpad(n, w) ==
    IF w = 0 THEN <<>> ELSE zpad(n \div 10, w - 1) \o <<DigitChars[(n % 10) + 1]>>

\* the decimal digits of n, without padding
RECURSIVE decimal(_)
decimal(n) ==
    IF n < 10 THEN <<DigitChars[n + 1]>>
    ELSE decimal(n \div 10) \o <<DigitChars[(n % 10) + 1]>>

\* strftime's %Y: the C library prints the year as a plain decimal, so a year
\* below 1000 comes out with fewer than four digits
strftime_Y(year) == decimal(year)

----------------------------------------------------------------------------
(* datetime: a record of year, month, day, hour, minute, second and        *)
(* microsecond, with the proleptic Gregorian ordinal arithmetic of the     *)
(* datetime module.                                                        *)

DaysInMonthTable == <<31, 28, 31, 30, 31, 30, 31, 31, 30, 31, 30, 31>>
DaysBeforeMonthTable == <<0, 31, 59, 90, 120, 151, 181, 212, 243, 273, 304, 334>>

is_leap(year) == year % 4 = 0 /\ (year % 100 # 0 \/ year % 400 = 0)

days_before_year(year) ==
    LET y == year - 1
    IN y * 365 + (y \div 4) - (y \div 100) + (y \div 400)

days_in_month(year, month) ==
    IF month = 2 /\ is_leap(year) THEN 29 ELSE DaysInMonthTable[month]

days_before_month(year, month) ==
    DaysBeforeMonthTable[month] + (IF month > 2 /\ is_leap(year) THEN 1 ELSE 0)

\* date.toordinal(): 1 for 0001-01-01
toordinal(dt) ==
    days_before_year(dt.year) + days_before_month(dt.year, dt.month) + dt.day

\* date.fromordinal(n), as [year, month, day]
ord2ymd(ordinal) ==
    LET n0   == ordinal - 1
        n400 == n0 \div 146097
        r400 == n0 % 146097
        n100 == r400 \div 36524
        r100 == r400 % 36524
        n4   == r100 \div 1461
        r4   == r100 % 1461
        n1   == r4 \div 365
        n    == r4 % 365
        year == n400 * 400 + 1 + n100 * 100 + n4 * 4 + n1
        leapyear == n1 = 3 /\ (n4 # 24 \/ n100 = 3)
        month0 == (n + 50) \div 32
        preceding0 == DaysBeforeMonthTable[month0]
                         + (IF month0 > 2 /\ leapyear THEN 1 ELSE 0)
        month == IF preceding0 > n THEN month0 - 1 ELSE month0
        preceding ==
            IF preceding0 > n
            THEN preceding0 - (DaysInMonthTable[month]
                                 + (IF month = 2 /\ leapyear THEN 1 ELSE 0))
            ELSE preceding0
    IN IF n1 = 4 \/ n100 = 4
       THEN [year |-> year - 1, month |-> 12, day |-> 31]
       ELSE [year |-> year, month |-> month, day |-> n - preceding + 1]

\* datetime(year, month, day, hour, minute, second, microsecond)
datetime(y, mo, d, h, mi, s, us) ==
    [year |-> y, month |-> mo, day |-> d,
     hour |-> h, minute |-> mi, second |-> s, microsecond |-> us]

\* dt.weekday(): Monday is 0, Sunday is 6
weekday(dt) == (toordinal(dt) + 6) % 7

\* dt - timedelta(days=k): the date moves, the time of day stays
minus_days(dt, k) ==
    LET ymd == ord2ymd(toordinal(dt) - k)
    IN [dt EXCEPT !.year = ymd.year, !.month = ymd.month, !.day = ymd.day]

\* a <= b for two datetimes: field by field, most significant first
dt_key(dt) == <<dt.year, dt.month, dt.day, dt.hour, dt.minute, dt.second, dt.microsecond>>

dt_lt(a, b) ==
    LET ka == dt_key(a)
        kb == dt_key(b)
        diff == {i \in 1..7 : ka[i] # kb[i]}
    IN diff # {} /\ LET k == CHOOSE i \in diff : \A j \in diff : i <= j
                    IN ka[k] < kb[k]

dt_le(a, b) == a = b \/ dt_lt(a, b)

DayNames == <<<<"M","o","n","d","a","y">>,
             <<"T","u","e","s","d","a","y">>,
             <<"W","e","d","n","e","s","d","a","y">>,
             <<"T","h","u","r","s","d","a","y">>,
             <<"F","r","i","d","a","y">>,
             <<"S","a","t","u","r","d","a","y">>,
             <<"S","u","n","d","a","y">>>>

MonthNames == <<<<"J","a","n","u","a","r","y">>,
               <<"F","e","b","r","u","a","r","y">>,
               <<"M","a","r","c","h">>,
               <<"A","p","r","i","l">>,
               <<"M","a","y">>,
               <<"J","u","n","e">>,
               <<"J","u","l","y">>,
               <<"A","u","g","u","s","t">>,
               <<"S","e","p","t","e","m","b","e","r">>,
               <<"O","c","t","o","b","e","r">>,
               <<"N","o","v","e","m","b","e","r">>,
               <<"D","e","c","e","m","b","e","r">>>>

\* dt.strftime("%A, %B %d, %Y")
strftime_label(dt) ==
    DayNames[weekday(dt) + 1] \o <<",", " ">> \o MonthNames[dt.month] \o <<" ">>
        \o zpad(dt.day, 2) \o <<",", " ">> \o strftime_Y(dt.year)

\* dt.strftime("%Y%m%d")
strftime_ymd(dt) == strftime_Y(dt.year) \o zpad(dt.month, 2) \o zpad(dt.day, 2)

\* datetime.strptime(s, "%Y%m%d_%H%M%S").  The format compiles to the regex
\*   (\d\d\d\d)(1[0-2]|0[1-9]|[1-9])(3[01]|[12]\d|0[1-9]|[1-9]| [1-9])_
\*   (2[0-3]|[0-1]\d|\d)([0-5]\d|\d)(6[0-1]|[0-5]\d|\d)
\* matched at the start of s; the first match in the regex's priority order
\* (the two-character alternatives of a field before its one-character one,
\* earlier fields deciding first) must end at the end of s, and its fields must
\* form a valid date and time.  Anything else raises ValueError.
num2(s, p) == DigitVal(s[p]) * 10 + DigitVal(s[p + 1])

digits_at(s, p, n) == p + n - 1 <= Len(s) /\ \A i \in p..(p + n - 1) : IsDigit(s[i])

\* does the field match n characters at position p
match_m(s, p, n) ==
    IF n = 2 THEN digits_at(s, p, 2) /\ num2(s, p) \in 1..12
    ELSE digits_at(s, p, 1) /\ DigitVal(s[p]) \in 1..9

match_d(s, p, n) ==
    IF n = 2
    THEN \/ digits_at(s, p, 2) /\ num2(s, p) \in 1..31
         \/ p + 1 <= Len(s) /\ s[p] = " " /\ IsDigit(s[p + 1]) /\ DigitVal(s[p + 1]) \in 1..9
    ELSE digits_at(s, p, 1) /\ DigitVal(s[p]) \in 1..9

match_H(s, p, n) ==
    IF n = 2 THEN digits_at(s, p, 2) /\ num2(s, p) \in 0..23
    ELSE digits_at(s, p, 1)

match_M(s, p, n) ==
    IF n = 2 THEN digits_at(s, p, 2) /\ num2(s, p) \in 0..59
    ELSE digits_at(s, p, 1)

match_S(s, p, n) ==
    IF n = 2 THEN digits_at(s, p, 2) /\ num2(s, p) \in 0..61
    ELSE digits_at(s, p, 1)

\* int() of the n characters of a field at position p
field_val(s, p, n) ==
    IF n = 1 THEN DigitVal(s[p])
    ELSE IF s[p] = " " THEN DigitVal(s[p + 1])
    ELSE num2(s, p)

\* does field k (1..5: m, d, H, M, S) match n characters at position p; the
\* day field is followed by the literal "_"
field_match(s, k, p, n) ==
    CASE k = 1 -> match_m(s, p, n)
      [] k = 2 -> match_d(s, p, n) /\ p + n <= Len(s) /\ s[p + n] = "_"
      [] k = 3 -> match_H(s, p, n)
      [] k = 4 -> match_M(s, p, n)
      [] k = 5 -> match_S(s, p, n)

\* where the next field starts
field_end(k, p, n) == IF k = 2 THEN p + n + 1 ELSE p + n

NoMatch == [ok |-> FALSE, w |-> <<>>]

\* the regex engine on fields k..5 from position p: the widths of the first
\* match in priority order (two characters before one, backtracking into the
\* later fields first), or NoMatch.  The day's two-character alternative
\* " [1-9]" comes last in the regex; it shares no first character with the
\* others, so trying it with the two-digit ones changes no result.
\* a match of the later fields, with the width n of this field in front
with_width(n, later) ==
    IF later.ok THEN [ok |-> TRUE, w |-> <<n>> \o later.w] ELSE NoMatch

\* the first alternative if it matches, else the second
first_match(two, one) == IF two.ok THEN two ELSE one

RECURSIVE regex_match(_, _, _)
regex_match(s, k, p) ==
    IF k > 5 THEN [ok |-> TRUE, w |-> <<>>]
    ELSE first_match(
           IF field_match(s, k, p, 2)
           THEN with_width(2, regex_match(s, k + 1, field_end(k, p, 2))) ELSE NoMatch,
           IF field_match(s, k, p, 1)
           THEN with_width(1, regex_match(s, k + 1, field_end(k, p, 1))) ELSE NoMatch)

\* the datetime of the matched fields, of widths found.w, or ValueError
strptime_fields(s, found) ==
       IF ~found.ok THEN [ok |-> FALSE, dt |-> datetime(0, 0, 0, 0, 0, 0, 0)]
       ELSE
        LET w  == found.w
            pm == 5
            pd == pm + w[1]
            pH == pd + w[2] + 1
            pM == pH + w[3]
            pS == pM + w[4]
            end == pS + w[5] - 1
            year  == DigitVal(s[1]) * 1000 + DigitVal(s[2]) * 100 + num2(s, 3)
            month == field_val(s, pm, w[1])
            day   == field_val(s, pd, w[2])
            hour  == field_val(s, pH, w[3])
            minute == field_val(s, pM, w[4])
            second == field_val(s, pS, w[5])
            valid == /\ end = Len(s)
                     /\ year >= 1
                     /\ day <= days_in_month(year, month)
                     /\ second <= 59
        IN IF valid
           THEN [ok |-> TRUE, dt |-> datetime(year, month, day, hour, minute, second, 0)]
           ELSE [ok |-> FALSE, dt |-> datetime(0, 0, 0, 0, 0, 0, 0)]

strptime(s) ==
    strptime_fields(s, IF digits_at(s, 1, 4) THEN regex_match(s, 1, 5) ELSE NoMatch)

----------------------------------------------------------------------------
(* Constants of the program.                                               *)

daily  == <<"d","a","i","l","y">>
weekly == <<"w","e","e","k","l","y">>

\* the period directories under USB_DIR, which are also the notes_type values
NotesTypes == {daily, weekly}

TEXT_EXTENSIONS == {<<".","t","x","t">>}

IMAGE_EXTENSIONS == {<<".","p","n","g">>,
                     <<".","j","p","g">>,
                     <<".","j","p","e","g">>,
                     <<".","g","i","f">>,
                     <<".","w","e","b","p">>}

ALL_EXTENSIONS == TEXT_EXTENSIONS \cup IMAGE_EXTENSIONS

\* width of the rule under the report header: '=' * 40
RuleWidth == 40

\* "\n\n---\n\n", the separator between two collected daily analyses
EntrySeparator == <<"\n","\n","-","-","-","\n","\n">>

----------------------------------------------------------------------------
(* The file system under USB_DIR.                                          *)

\* faulty variant: the text is appended to what the file holds
write_text_append(f, k, v) ==
    [x \in (DOMAIN f) \cup {k} |->
        IF x = k THEN (IF k \in DOMAIN f THEN f[k] \o v ELSE v) ELSE f[x]]

\* f with f[k] = v, k added to the domain if absent (Path.write_text)
write_text(f, k, v) == [x \in (DOMAIN f) \cup {k} |-> IF x = k THEN v ELSE f[x]]

EmptyDir == [x \in {} |-> <<>>]

\* notes_dir.glob("*" + ext): the names of directory d that end with ext
glob(d, ext) == {n \in DOMAIN files[d] : endswith(n, ext)}

\* sorted(S): the names of S in ascending order
RECURSIVE sorted(_)
sorted(S) ==
    IF S = {} THEN <<>>
    ELSE LET least == CHOOSE x \in S : \A y \in S : x = y \/ str_lt(x, y)
         IN <<least>> \o sorted(S \ {least})

\* sorted(S, reverse=True)
RECURSIVE sorted_reverse(_)
sorted_reverse(S) ==
    IF S = {} THEN <<>>
    ELSE LET greatest == CHOOSE x \in S : \A y \in S : x = y \/ str_lt(y, x)
         IN <<greatest>> \o sorted_reverse(S \ {greatest})

----------------------------------------------------------------------------
(* What a call returns or raises.  status is "ok" for a return and names   *)
(* the exception otherwise; read lists the files whose content was read,   *)
(* extracted the files handed to extract_text_from_image, in call order;   *)
(* existed and previous tell whether the written file existed before the   *)
(* write and what it held.                                                 *)

NoDate == datetime(0, 0, 0, 0, 0, 0, 0)
NoPath == <<(<<>>), (<<>>)>>

NoResult ==
    [op |-> "none", status |-> "none", notes_type |-> <<>>,
     text |-> <<>>, path |-> NoPath, date |-> NoDate,
     week_start |-> NoDate, week_end |-> NoDate,
     input |-> NoPath, analysis |-> <<>>, existed |-> FALSE, previous |-> <<>>,
     read |-> <<>>, extracted |-> <<>>,
     today |-> NoDate, analyzed |-> FALSE, exit |-> 0,
     api_key |-> [given |-> FALSE, value |-> <<>>]]

\* no run of main() is waiting on analyze_tasks
NoRun == [active |-> FALSE, notes_type |-> <<>>, loaded |-> NoResult]

\* no call of load_task_notes is waiting on extract_text_from_image
NoLoading == [active |-> FALSE, notes_type |-> <<>>, notes_path |-> <<>>,
              file_date |-> NoDate]

\* extract_text_from_image has been called and has not returned yet
Extracting == [ok |-> FALSE, text |-> <<>>, returned |-> FALSE]

----------------------------------------------------------------------------
(* load_task_notes of tasker/files.py                                      *)

\* faulty variant: the analysis is looked up under the note's own extension
analysis_filename_keep_suffix(notes_path, notes_type) ==
    stem(notes_path) \o <<".">> \o notes_type \o <<"_","a","n","a","l","y","s","i","s">>
        \o suffix(notes_path)

\* f"{notes_path.stem}.{notes_type}_analysis.txt"
analysis_filename(notes_path, notes_type) ==
    stem(notes_path) \o <<".">> \o notes_type \o <<"_","a","n","a","l","y","s","i","s",".","t","x","t">>

\* faulty variant: analysis outputs are not skipped
is_analysis_output_never(name) == FALSE

\* faulty variant: only a name that ends with "_analysis" is skipped
is_analysis_output_at_end(name) == endswith(name, <<"_","a","n","a","l","y","s","i","s">>)

\* "_analysis" in notes_path.name
is_analysis_output(name) == contains(name, <<"_","a","n","a","l","y","s","i","s">>)

\* faulty variant: every note is read as plain text, images included
read_note_as_text(notes_path, notes_type, ocr, base, parsed) ==
    IF ~parsed.ok THEN [base EXCEPT !.status = "ValueError"]
    ELSE [base EXCEPT !.status = "ok",
                      !.text = files[notes_type][notes_path],
                      !.path = <<notes_type, notes_path>>,
                      !.date = parsed.dt,
                      !.read = <<notes_path>>]

\* faulty variant: the time of day is dropped from the returned date
read_note_midnight(notes_path, notes_type, ocr, base, parsed) ==
    LET is_image == [i \in 1..Len(suffix(notes_path)) |-> lower(suffix(notes_path)[i])]
                       \in IMAGE_EXTENSIONS
        midnight == [parsed.dt EXCEPT !.hour = 0, !.minute = 0, !.second = 0]
    IN IF ~parsed.ok THEN [base EXCEPT !.status = "ValueError"]
       ELSE IF is_image /\ ~ocr.returned
       THEN [base EXCEPT !.status = "extracting",
                         !.date = midnight,
                         !.extracted = <<notes_path>>]
       ELSE IF is_image /\ ~ocr.ok
       THEN [base EXCEPT !.status = "extract_error",
                         !.extracted = <<notes_path>>]
       ELSE IF is_image
       THEN [base EXCEPT !.status = "ok", !.text = ocr.text,
                         !.path = <<notes_type, notes_path>>,
                         !.date = midnight,
                         !.extracted = <<notes_path>>]
       ELSE [base EXCEPT !.status = "ok",
                         !.text = files[notes_type][notes_path],
                         !.path = <<notes_type, notes_path>>,
                         !.date = midnight,
                         !.read = <<notes_path>>]

\* the body of "if not analysis_path.exists()": the file name is parsed (parsed
\* is what strptime gives), the file is read, or extracted if it is an image,
\* and returned; ocr is what extract_text_from_image did, or Extracting while
\* the call waits on it
read_note(notes_path, notes_type, ocr, base, parsed) ==
    LET is_image == [i \in 1..Len(suffix(notes_path)) |-> lower(suffix(notes_path)[i])]
                       \in IMAGE_EXTENSIONS
    IN IF ~parsed.ok THEN [base EXCEPT !.status = "ValueError"]
       ELSE IF is_image /\ ~ocr.returned
       THEN [base EXCEPT !.status = "extracting",
                         !.date = parsed.dt,
                         !.extracted = <<notes_path>>]
       ELSE IF is_image /\ ~ocr.ok
       THEN [base EXCEPT !.status = "extract_error",
                         !.extracted = <<notes_path>>]
       ELSE IF is_image
       THEN [base EXCEPT !.status = "ok", !.text = ocr.text,
                         !.path = <<notes_type, notes_path>>,
                         !.date = parsed.dt,
                         !.extracted = <<notes_path>>]
       ELSE [base EXCEPT !.status = "ok",
                         !.text = files[notes_type][notes_path],
                         !.path = <<notes_type, notes_path>>,
                         !.date = parsed.dt,
                         !.read = <<notes_path>>]

\* the loop over all_files: the first file that is no analysis output and has
\* no analysis file is parsed, read and returned
RECURSIVE scan_notes(_, _, _, _)
scan_notes(all_files, notes_type, ocr, base) ==
    IF all_files = <<>> THEN [base EXCEPT !.status = "no_unanalyzed"]
    ELSE
     LET notes_path == Head(all_files)
     IN IF is_analysis_output(notes_path)
        THEN scan_notes(Tail(all_files), notes_type, ocr, base)
        ELSE IF analysis_filename(notes_path, notes_type) \in DOMAIN files[notes_type]
        THEN scan_notes(Tail(all_files), notes_type, ocr, base)
        ELSE read_note(notes_path, notes_type, ocr, base, strptime(stem(notes_path)))

load_task_notes(notes_type, ocr) ==
    LET base == [NoResult EXCEPT !.op = "load_task_notes", !.notes_type = notes_type]
    IN IF ~root_exists THEN [base EXCEPT !.status = "not_mounted"]
       ELSE IF ~dir_exists[notes_type] THEN [base EXCEPT !.status = "dir_not_found"]
       ELSE scan_notes(
              sorted_reverse(UNION {glob(notes_type, ext) : ext \in ALL_EXTENSIONS}),
              notes_type, ocr, base)

----------------------------------------------------------------------------
(* save_analysis of tasker/files.py                                        *)

\* faulty variant: the output is named after the date of the note only
output_filename_date_only(input_name, notes_type) ==
    SubSeq(stem(input_name), 1, 8) \o <<".">> \o notes_type
        \o <<"_","a","n","a","l","y","s","i","s",".","t","x","t">>

\* faulty variant: the output keeps the extension of the input
output_filename_keep_suffix(input_name, notes_type) ==
    stem(input_name) \o <<".">> \o notes_type \o <<"_","a","n","a","l","y","s","i","s">>
        \o suffix(input_name)

\* f"{input_path.stem}.{notes_type}_analysis.txt"
output_filename(input_name, notes_type) ==
    stem(input_name) \o <<".">> \o notes_type \o <<"_","a","n","a","l","y","s","i","s",".","t","x","t">>

\* faulty variant: no blank line between the rule and the body
formatted_output_no_blank_line(analysis, notes_type) ==
    capitalize(notes_type) \o <<" ","T","a","s","k"," ","A","n","a","l","y","s","i","s">> \o <<"\n">>
        \o repeat("=", RuleWidth) \o <<"\n">> \o analysis \o <<"\n">>

\* f"{header}\n{'=' * 40}\n\n{analysis}\n"
formatted_output(analysis, notes_type) ==
    capitalize(notes_type) \o <<" ","T","a","s","k"," ","A","n","a","l","y","s","i","s">> \o <<"\n">>
        \o repeat("=", RuleWidth) \o <<"\n", "\n">> \o analysis \o <<"\n">>

\* the files of the input's directory after output_path.write_text(...)
save_analysis_files(analysis, input_path, notes_type) ==
    [files EXCEPT ![input_path[1]] =
        write_text(@, output_filename(input_path[2], notes_type),
                   formatted_output(analysis, notes_type))]

save_analysis(analysis, input_path, notes_type) ==
    LET base == [NoResult EXCEPT !.op = "save_analysis", !.notes_type = notes_type,
                                 !.input = input_path, !.analysis = analysis]
        out  == output_filename(input_path[2], notes_type)
    IN IF ~(root_exists /\ dir_exists[input_path[1]])
       THEN [base EXCEPT !.status = "write_error"]
       ELSE [base EXCEPT !.status = "ok",
                         !.path = <<input_path[1], out>>,
                         !.text = formatted_output(analysis, notes_type),
                         !.existed = out \in DOMAIN files[input_path[1]],
                         !.previous = IF out \in DOMAIN files[input_path[1]]
                                      THEN files[input_path[1]][out] ELSE <<>>]

----------------------------------------------------------------------------
(* collect_weekly_analyses of tasker/files.py (tasker/tasker.py holds the  *)
(* same code).                                                             *)

\* faulty variant: the window is the seven days that end yesterday
week_window_rolling(today) ==
    LET last_day == minus_days(today, 1)
        first_day == minus_days(last_day, 6)
    IN [week_start |-> [first_day EXCEPT !.hour = 0, !.minute = 0,
                                         !.second = 0, !.microsecond = 0],
        week_end   |-> [last_day EXCEPT !.hour = 23, !.minute = 59,
                                        !.second = 59, !.microsecond = 999999]]

\* week_start and week_end as computed from today = datetime.now()
week_window(today) ==
    LET days_since_sunday == (weekday(today) + 1) % 7
        last_sunday == minus_days(today, days_since_sunday)
        last_monday == minus_days(last_sunday, 6)
    IN [week_start |-> [last_monday EXCEPT !.hour = 0, !.minute = 0,
                                           !.second = 0, !.microsecond = 0],
        week_end   |-> [last_sunday EXCEPT !.hour = 23, !.minute = 59,
                                           !.second = 59, !.microsecond = 999999]]

\* f"## {date_label}\n\n{content}"
entry_text(file_date, content) ==
    <<"#", "#", " ">> \o strftime_label(file_date) \o <<"\n", "\n">> \o content

\* faulty variant: the start of the window is excluded
in_window_strict(file_date, window) ==
    dt_lt(window.week_start, file_date) /\ dt_le(file_date, window.week_end)

\* faulty variant: the start of the window is not checked
in_window_no_lower(file_date, window) ==
    dt_le(file_date, window.week_end)

\* week_start <= file_date <= week_end
in_window(file_date, window) ==
    dt_le(window.week_start, file_date) /\ dt_le(file_date, window.week_end)

\* the loop over analysis_files: the files whose leading timestamp parses and
\* lies in the window, in the order of analysis_files, each as
\* [name, file_date, text]
\* the body of the loop for one file: nothing if the name does not parse
\* (parsed is what strptime gives) or the date is outside the window
collect_entry(analysis_path, window, parsed) ==
    IF ~parsed.ok THEN <<>>
    ELSE IF in_window(parsed.dt, window)
    THEN <<[name |-> analysis_path, file_date |-> parsed.dt,
            text |-> entry_text(parsed.dt, files[daily][analysis_path])]>>
    ELSE <<>>

RECURSIVE collect_entries(_, _)
collect_entries(analysis_files, window) ==
    IF analysis_files = <<>> THEN <<>>
    ELSE collect_entry(Head(analysis_files), window,
                       strptime(split_dot_first(stem(Head(analysis_files)))))
            \o collect_entries(Tail(analysis_files), window)

\* faulty variant: the label is the year and the month of the window start
weekly_output_path_month(week_start) ==
    <<weekly, zpad(week_start.year, 4) \o zpad(week_start.month, 2)
                 \o <<".","w","e","e","k",".","t","x","t">>>>

\* f"{week_label}.week.txt" under weekly_dir
weekly_output_path(week_start) ==
    <<weekly, strftime_ymd(week_start) \o <<".","w","e","e","k",".","t","x","t">>>>

\* what collect_weekly_analyses returns or raises for the window and the
\* entries it collected
collect_outcome(today, window, entries) ==
    LET base == [NoResult EXCEPT !.op = "collect_weekly_analyses", !.today = today]
    IN IF ~root_exists THEN [base EXCEPT !.status = "not_mounted"]
       ELSE IF ~dir_exists[daily] THEN [base EXCEPT !.status = "dir_not_found"]
       ELSE IF entries = <<>>
       THEN [base EXCEPT !.status = "no_daily_analyses",
                         !.week_start = window.week_start,
                         !.week_end = window.week_end]
       ELSE [base EXCEPT !.status = "ok",
                         !.text = join(EntrySeparator,
                                       [i \in 1..Len(entries) |-> entries[i].text]),
                         !.path = weekly_output_path(window.week_start),
                         !.week_start = window.week_start,
                         !.week_end = window.week_end,
                         !.read = [i \in 1..Len(entries) |-> entries[i].name]]

\* the entries of the files named *.daily_analysis.txt, in sorted order
collect_window_entries(window) ==
    collect_entries(
        sorted(glob(daily, <<".","d","a","i","l","y","_","a","n","a","l","y","s","i","s",".","t","x","t">>)),
        window)

collect_weekly_analyses(today) ==
    collect_outcome(today, week_window(today), collect_window_entries(week_window(today)))

\* faulty variant: the weekly directory is created only once an analysis of
\* the window was found
collect_weekly_analyses_dirs_late ==
    IF root_exists /\ dir_exists[daily] /\ collect_window_entries(week_window(now)) # <<>>
    THEN [dir_exists EXCEPT ![weekly] = TRUE]
    ELSE dir_exists

\* faulty variant: the weekly directory is created before the daily directory
\* is looked for
collect_weekly_analyses_dirs_early ==
    IF root_exists THEN [dir_exists EXCEPT ![weekly] = TRUE] ELSE dir_exists

\* weekly_dir.mkdir(exist_ok=True), reached once the root and the daily
\* directory were found
collect_weekly_analyses_dirs ==
    IF root_exists /\ dir_exists[daily]
    THEN [dir_exists EXCEPT ![weekly] = TRUE]
    ELSE dir_exists

----------------------------------------------------------------------------
(* tasker/tasker.py: its own load_task_notes and save_analysis, and main.  *)

\* f"{notes_path.stem}.{notes_type}_analysis{notes_path.suffix}"
tasker_analysis_filename(notes_path, notes_type) ==
    stem(notes_path) \o <<".">> \o notes_type \o <<"_","a","n","a","l","y","s","i","s">>
        \o suffix(notes_path)

\* the body of "if not analysis_path.exists()": parse the name, read the file
tasker_read_note(notes_path, notes_type, base, parsed) ==
    IF ~parsed.ok THEN [base EXCEPT !.status = "ValueError"]
    ELSE [base EXCEPT !.status = "ok",
                      !.text = files[notes_type][notes_path],
                      !.path = <<notes_type, notes_path>>,
                      !.date = parsed.dt,
                      !.read = <<notes_path>>]

RECURSIVE tasker_scan_notes(_, _, _)
tasker_scan_notes(txt_files, notes_type, base) ==
    IF txt_files = <<>> THEN [base EXCEPT !.status = "no_unanalyzed"]
    ELSE
     LET notes_path == Head(txt_files)
     IN IF is_analysis_output(notes_path)
        THEN tasker_scan_notes(Tail(txt_files), notes_type, base)
        ELSE IF tasker_analysis_filename(notes_path, notes_type)
                   \in DOMAIN files[notes_type]
        THEN tasker_scan_notes(Tail(txt_files), notes_type, base)
        ELSE tasker_read_note(notes_path, notes_type, base, strptime(stem(notes_path)))

tasker_load_task_notes(notes_type) ==
    LET base == [NoResult EXCEPT !.op = "tasker_load_task_notes",
                                 !.notes_type = notes_type]
    IN IF ~root_exists THEN [base EXCEPT !.status = "not_mounted"]
       ELSE IF ~dir_exists[notes_type] THEN [base EXCEPT !.status = "dir_not_found"]
       ELSE tasker_scan_notes(sorted_reverse(glob(notes_type, <<".","t","x","t">>)),
                              notes_type, base)

\* f"{input_path.stem}.{notes_type}_analysis{input_path.suffix}"
tasker_output_filename(input_name, notes_type) ==
    stem(input_name) \o <<".">> \o notes_type \o <<"_","a","n","a","l","y","s","i","s">>
        \o suffix(input_name)

tasker_save_analysis_files(analysis, input_path, notes_type) ==
    [files EXCEPT ![input_path[1]] =
        write_text(@, tasker_output_filename(input_path[2], notes_type),
                   formatted_output(analysis, notes_type))]

tasker_save_analysis(analysis, input_path, notes_type) ==
    LET base == [NoResult EXCEPT !.op = "tasker_save_analysis",
                                 !.notes_type = notes_type,
                                 !.input = input_path, !.analysis = analysis]
        out  == tasker_output_filename(input_path[2], notes_type)
    IN IF ~(root_exists /\ dir_exists[input_path[1]])
       THEN [base EXCEPT !.status = "write_error"]
       ELSE [base EXCEPT !.status = "ok",
                         !.path = <<input_path[1], out>>,
                         !.text = formatted_output(analysis, notes_type),
                         !.existed = out \in DOMAIN files[input_path[1]],
                         !.previous = IF out \in DOMAIN files[input_path[1]]
                                      THEN files[input_path[1]][out] ELSE <<>>]

----------------------------------------------------------------------------
(* tasktriage/cli.py: the batch command line.  Of tasktriage/files.py only *)
(* the calls are at hand; load_all_unanalyzed_task_notes,                  *)
(* _find_weeks_needing_analysis and collect_weekly_analyses_for_week       *)
(* follow the loader and the aggregator as specified, save_analysis is the *)
(* writer of tasker/files.py.                                              *)

\* ThreadPoolExecutor(max_workers=5)
max_workers == 5

\* the values of --files
png == <<"p","n","g">>
txt == <<"t","x","t">>
FilePreferences == {png, txt}

\* the extensions of the preferred kind
preferred_extensions(file_preference) ==
    IF file_preference = txt THEN TEXT_EXTENSIONS ELSE IMAGE_EXTENSIONS

\* the candidates left once analysis outputs and analyzed notes are skipped,
\* in the order of all_files
RECURSIVE unanalyzed_notes(_, _)
unanalyzed_notes(all_files, notes_type) ==
    IF all_files = <<>> THEN <<>>
    ELSE LET notes_path == Head(all_files)
             rest == unanalyzed_notes(Tail(all_files), notes_type)
         IN IF is_analysis_output(notes_path) THEN rest
            ELSE IF analysis_filename(notes_path, notes_type) \in DOMAIN files[notes_type]
            THEN rest
            ELSE <<notes_path>> \o rest

\* one loaded note: (content, path, date), ok unless its name does not parse
\* or its text cannot be extracted
loaded_note(notes_path, notes_type, ocr, parsed) ==
    LET is_image == [i \in 1..Len(suffix(notes_path)) |-> lower(suffix(notes_path)[i])]
                       \in IMAGE_EXTENSIONS
    IN [status |-> IF ~parsed.ok THEN "ValueError"
                   ELSE IF is_image /\ ~ocr.ok THEN "extract_error"
                   ELSE "ok",
        text   |-> IF is_image THEN ocr.text ELSE files[notes_type][notes_path],
        path   |-> <<notes_type, notes_path>>,
        date   |-> parsed.dt]

\* the first status of the notes that is not ok, ok if there is none
RECURSIVE first_error(_)
first_error(notes) ==
    IF notes = <<>> THEN "ok"
    ELSE IF Head(notes).status # "ok" THEN Head(notes).status
    ELSE first_error(Tail(notes))

\* what load_all_unanalyzed_task_notes returns for the candidates left
load_all_outcome(notes) ==
    IF notes = <<>> THEN [status |-> "no_unanalyzed", items |-> <<>>]
    ELSE IF first_error(notes) # "ok"
    THEN [status |-> first_error(notes), items |-> <<>>]
    ELSE [status |-> "ok",
          items  |-> [i \in 1..Len(notes) |->
                        [text |-> notes[i].text, path |-> notes[i].path,
                         date |-> notes[i].date]]]

load_all_unanalyzed_task_notes(notes_type, file_preference, ocr) ==
    IF ~root_exists THEN [status |-> "not_mounted", items |-> <<>>]
    ELSE IF ~dir_exists[notes_type] THEN [status |-> "dir_not_found", items |-> <<>>]
    ELSE LET left == unanalyzed_notes(
                        sorted_reverse(UNION {glob(notes_type, ext) :
                                              ext \in preferred_extensions(file_preference)}),
                        notes_type)
         IN load_all_outcome([i \in 1..Len(left) |->
                                loaded_note(left[i], notes_type, ocr,
                                            strptime(stem(left[i])))])

\* analyze_single_file: (notes_path, output_path, success); an exception of
\* analyze_tasks or of save_analysis is caught and makes success False
analyze_single_file(item, notes_type, llm) ==
    LET saved == save_analysis(llm.text, item.path, notes_type)
    IN IF llm.ok /\ saved.status = "ok"
       THEN [notes_path |-> item.path, output_path |-> saved.path, success |-> TRUE]
       ELSE [notes_path |-> item.path, output_path |-> NoPath, success |-> FALSE]

\* the files after analyze_single_file
analyze_single_file_files(item, notes_type, llm) ==
    IF llm.ok /\ root_exists /\ dir_exists[item.path[1]]
    THEN save_analysis_files(llm.text, item.path, notes_type)
    ELSE files

\* the Monday to Sunday week that holds file_date
week_of(file_date) ==
    LET monday == minus_days(file_date, weekday(file_date))
        sunday == minus_days(monday, -6)
    IN [week_start |-> [monday EXCEPT !.hour = 0, !.minute = 0,
                                      !.second = 0, !.microsecond = 0],
        week_end   |-> [sunday EXCEPT !.hour = 23, !.minute = 59,
                                      !.second = 59, !.microsecond = 999999]]

\* f"{week_label}.week.weekly_analysis.txt": what save_analysis writes for
\* the window
weekly_analysis_filename(week_start) ==
    output_filename(weekly_output_path(week_start)[2], weekly)

\* the week of a daily analysis file, none if its name does not parse
analysis_week(parsed) ==
    IF parsed.ok THEN {week_of(parsed.dt)} ELSE {}

\* a window is due when it is fully past and has no weekly analysis yet
week_is_due(window, today) ==
    /\ dt_lt(window.week_end, today)
    /\ weekly_analysis_filename(window.week_start) \notin DOMAIN files[weekly]

\* the windows in chronological order
RECURSIVE sorted_weeks(_)
sorted_weeks(windows) ==
    IF windows = {} THEN <<>>
    ELSE LET first == CHOOSE w \in windows :
                         \A v \in windows : dt_le(w.week_start, v.week_start)
         IN <<first>> \o sorted_weeks(windows \ {first})

\* _find_weeks_needing_analysis: the due windows that hold a daily analysis
find_weeks_needing_analysis(today) ==
    IF ~(root_exists /\ dir_exists[daily]) THEN <<>>
    ELSE sorted_weeks(
           {w \in UNION {analysis_week(strptime(split_dot_first(stem(n)))) :
                         n \in glob(daily, <<".","d","a","i","l","y","_","a","n","a","l","y","s","i","s",".","t","x","t">>)} :
              week_is_due(w, today)})

\* collect_weekly_analyses_for_week: collect_weekly_analyses for a given window
collect_weekly_analyses_for_week(week_start, week_end, today) ==
    collect_outcome(today, [week_start |-> week_start, week_end |-> week_end],
                    collect_window_entries([week_start |-> week_start,
                                            week_end |-> week_end]))

\* the run of main(): stage is where main() is, loaded what the loader
\* returned, submitted how many futures were submitted, running the futures a
\* worker thread is executing, finished the results of the completed futures,
\* counted the futures as_completed has yielded, attempts how often
\* analyze_single_file was entered for each file, weeks the due windows and
\* week the index of the next one, weekly_log the windows attempted and how
\* each ended, exit the exit status
(* Optional[str]: None, or a str given as its characters.                  *)
None == [given |-> FALSE, value |-> <<>>]

Some(s) == [given |-> TRUE, value |-> s]

(* bool(x) of an Optional[str]: None and "" are falsy.                     *)
truthy(x) == x.given /\ x.value # <<>>

auto == <<"a", "u", "t", "o">>

local == <<"l", "o", "c", "a", "l">>

usb == <<"u", "s", "b">>

gdrive == <<"g", "d", "r", "i", "v", "e">>

(* os.environ before anything is configured; a directory variable is       *)
(* "unset", "missing" (set, nothing there) or "exists"; a credential is    *)
(* set or not.                                                             *)
NoEnviron ==
    [NOTES_SOURCE |-> auto, LOCAL_INPUT_DIR |-> "unset",
     EXTERNAL_INPUT_DIR |-> "unset", GOOGLE_OAUTH_CLIENT_ID |-> FALSE,
     GOOGLE_OAUTH_CLIENT_SECRET |-> FALSE, GOOGLE_DRIVE_FOLDER_ID |-> FALSE,
     ANTHROPIC_API_KEY |-> None, LOCAL_OUTPUT_DIR |-> None]

(* What sync_files_across_directories reports when nothing was there.      *)
NoStats == [total |-> 0, synced |-> 0, converted |-> 0, errors |-> 0]

(* st.session_state of a page that has not been opened, with what the last *)
(* run of the script handled and displayed.                                *)
NoSession ==
    [notes_dir |-> FALSE, sync_disabled |-> FALSE, triage_disabled |-> FALSE,
     triage_running |-> FALSE, handled |-> "none", shown |-> "none",
     errors_shown |-> FALSE, stats |-> NoStats]

is_local_input_available(e) == e.LOCAL_INPUT_DIR = "exists"

is_usb_available(e) == e.EXTERNAL_INPUT_DIR = "exists"

is_gdrive_available(e) ==
    /\ e.GOOGLE_OAUTH_CLIENT_ID
    /\ e.GOOGLE_OAUTH_CLIENT_SECRET
    /\ e.GOOGLE_DRIVE_FOLDER_ID

\* faulty variant: auto mode tries the cloud before the removable mount
get_active_source_gdrive_first(e) ==
    LET source == e.NOTES_SOURCE
        ok(name) == [ok |-> TRUE, source |-> name]
        fail == [ok |-> FALSE, source |-> <<>>]
    IN  IF source = local
        THEN IF is_local_input_available(e) THEN ok(local) ELSE fail
        ELSE IF source = usb
        THEN IF is_usb_available(e) THEN ok(usb) ELSE fail
        ELSE IF source = gdrive
        THEN IF is_gdrive_available(e) THEN ok(gdrive) ELSE fail
        ELSE IF is_local_input_available(e) THEN ok(local)
        ELSE IF is_gdrive_available(e) THEN ok(gdrive)
        ELSE IF is_usb_available(e) THEN ok(usb)
        ELSE fail

(* get_active_source(): the requested backend if it is available, in auto  *)
(* mode the first available of local, usb, gdrive; fail otherwise.         *)
get_active_source(e) ==
    LET source == e.NOTES_SOURCE
        ok(name) == [ok |-> TRUE, source |-> name]
        fail == [ok |-> FALSE, source |-> <<>>]
    IN  IF source = local
        THEN IF is_local_input_available(e) THEN ok(local) ELSE fail
        ELSE IF source = usb
        THEN IF is_usb_available(e) THEN ok(usb) ELSE fail
        ELSE IF source = gdrive
        THEN IF is_gdrive_available(e) THEN ok(gdrive) ELSE fail
        ELSE IF is_local_input_available(e) THEN ok(local)
        ELSE IF is_usb_available(e) THEN ok(usb)
        ELSE IF is_gdrive_available(e) THEN ok(gdrive)
        ELSE fail

(* get_notes_source() of tasktriage/files.py, as cli.py uses it: the active *)
(* source, or the error of get_active_source.                              *)
get_notes_source(e) == get_active_source(e)

NoCli ==
    [stage |-> "start", source |-> <<>>, file_preference |-> <<>>, status |-> "none",
     loaded |-> <<>>, submitted |-> 0, running |-> {}, finished |-> <<>>,
     counted |-> {}, attempts |-> <<>>, successful |-> 0, failed |-> 0,
     weeks |-> <<>>, week |-> 0, weekly_log |-> <<>>,
     weekly_successful |-> 0, weekly_failed |-> 0, exit |-> -1]

----------------------------------------------------------------------------
(* The inputs: the directories the program may find, the instants it may   *)
(* run at, and what the external services return.                          *)

\* 20250106_000000.jpg
Note_Mon_jpg == <<"2","0","2","5","0","1","0","6","_","0","0","0","0","0","0",".","j","p","g">>

\* 20250107_090000.txt
Note_Tue_txt == <<"2","0","2","5","0","1","0","7","_","0","9","0","0","0","0",".","t","x","t">>

\* 2025019_090000.txt
Note_Thu_short == <<"2","0","2","5","0","1","9","_","0","9","0","0","0","0",".","t","x","t">>

\* 20251231_143000.png
Note_Example_png == <<"2","0","2","5","1","2","3","1","_","1","4","3","0","0","0",".","p","n","g">>

\* 20250112_235959.txt
Note_Sun_txt == <<"2","0","2","5","0","1","1","2","_","2","3","5","9","5","9",".","t","x","t">>

\* 20250113_080000.txt
Note_NextMon_txt == <<"2","0","2","5","0","1","1","3","_","0","8","0","0","0","0",".","t","x","t">>

\* notes.txt
Note_unnamed == <<"n","o","t","e","s",".","t","x","t">>

\* 20250107_090000.daily_analysis.txt
Analysis_Tue == <<"2","0","2","5","0","1","0","7","_","0","9","0","0","0","0",".","d","a","i","l","y","_","a","n","a","l","y","s","i","s",".","t","x","t">>

\* notes.daily_analysis.txt
Analysis_unnamed == <<"n","o","t","e","s",".","d","a","i","l","y","_","a","n","a","l","y","s","i","s",".","t","x","t">>

\* 20241230_070000.txt
Note_Weekly_txt == <<"2","0","2","4","1","2","3","0","_","0","7","0","0","0","0",".","t","x","t">>

\* the files the daily directory may hold when the loader and the writer run
DailyNames == {Note_Mon_jpg, Note_Tue_txt, Note_Thu_short, Note_Example_png,
               Note_Sun_txt, Note_NextMon_txt, Note_unnamed, Analysis_Tue}

\* the files the daily directory may hold when the weekly roll-up runs
RollupNames == {Note_Mon_jpg, Note_Thu_short, Note_Sun_txt, Note_NextMon_txt,
                Analysis_Tue, Analysis_unnamed}

\* the files the weekly directory may hold
WeeklyNames == {Note_Weekly_txt}

\* the content a file of the initial directories holds
InitialContent(name) ==
    CASE name = Note_Mon_jpg     -> <<"a">>
      [] name = Note_Tue_txt     -> <<"b">>
      [] name = Note_Thu_short   -> <<"c">>
      [] name = Note_Example_png -> <<"d">>
      [] name = Note_Sun_txt     -> <<"e">>
      [] name = Note_NextMon_txt -> <<"f">>
      [] name = Note_unnamed     -> <<"g">>
      [] name = Analysis_Tue     -> <<"o", "l", "d">>
      [] name = Analysis_unnamed -> <<"h">>
      [] name = Note_Weekly_txt  -> <<"w">>

\* at most MaxNotes files in the daily directory initially; at most MaxFiles
\* files in a directory when the loader and the writer run, at most
\* MaxRollupFiles when the weekly roll-up runs
MaxNotes == 2
MaxFiles == 3
MaxRollupFiles == 4

\* the instants datetime.now() may return
NowSet == {datetime(2025, 1, 12, 10, 30, 0, 0),        \* Sunday
           datetime(2025, 1, 15, 10, 30, 0, 0),        \* Wednesday
           datetime(2025, 1, 20, 0, 0, 0, 0)}          \* Monday, midnight

\* what analyze_tasks returns (ok) or that it raises
Bodies == {<<"P">>, <<"Q", "\n", "R">>}
LlmOutcomes == {[ok |-> TRUE, text |-> <<"P">>], [ok |-> FALSE, text |-> <<>>]}

\* what extract_text_from_image returns (ok) or that it raises
OcrOutcomes == {[ok |-> TRUE, text |-> <<"o", "c", "r">>, returned |-> TRUE],
                [ok |-> FALSE, text |-> <<>>, returned |-> TRUE]}

\* the directories the program may find, the daily one filled from Names
InitFiles(Names, Weekly) ==
    /\ result = NoResult
    /\ \/ /\ root_exists = FALSE
          /\ dir_exists = [d \in NotesTypes |-> FALSE]
          /\ files = [d \in NotesTypes |-> EmptyDir]
       \/ /\ root_exists = TRUE
          /\ dir_exists \in [NotesTypes -> BOOLEAN]
          /\ \E D \in SUBSET Names, W \in SUBSET Weekly :
                /\ Cardinality(D) <= MaxNotes
                /\ ~dir_exists[daily] => D = {}
                /\ ~dir_exists[weekly] => W = {}
                /\ files = [d \in NotesTypes |->
                              IF d = daily THEN [n \in D |-> InitialContent(n)]
                              ELSE [n \in W |-> InitialContent(n)]]

\* the loader and the writer do not read the clock
Init ==
    /\ now = datetime(2025, 1, 15, 10, 30, 0, 0)
    /\ InitFiles(DailyNames, WeeklyNames)
    /\ cli = NoCli
    /\ environ = NoEnviron
    /\ session = NoSession
    /\ rounds = <<>>
    /\ run = NoRun
    /\ loading = NoLoading

\* the weekly roll-up runs at any of the instants
InitWeekly ==
    /\ now \in NowSet
    /\ InitFiles(RollupNames, {})
    /\ cli = NoCli
    /\ environ = NoEnviron
    /\ session = NoSession
    /\ rounds = <<>>
    /\ run = NoRun
    /\ loading = NoLoading

\* 202501DD_090000 followed by ext
NoteNamed(day, ext) ==
    <<"2","0","2","5","0","1">> \o zpad(day, 2) \o <<"_","0","9","0","0","0","0">> \o ext

\* the directories the batch command line may find: six scanned notes of two
\* weeks; one note scanned twice and typed once; a note next to the analysis
\* of an earlier week; the same with that week's weekly analysis; a weekly
\* analysis only; nothing
CliScenarios ==
    {[daily  |-> {NoteNamed(d, <<".","p","n","g">>) : d \in {7, 8, 9, 14, 15, 16}},
      weekly |-> {}],
     [daily  |-> {NoteNamed(7, <<".","p","n","g">>), NoteNamed(7, <<".","j","p","g">>),
                  NoteNamed(7, <<".","t","x","t">>)},
      weekly |-> {}],
     [daily  |-> {NoteNamed(14, <<".","p","n","g">>), NoteNamed(14, <<".","t","x","t">>),
                  Analysis_Tue},
      weekly |-> {}],
     [daily  |-> {NoteNamed(14, <<".","p","n","g">>), Analysis_Tue},
      weekly |-> {weekly_analysis_filename(datetime(2025, 1, 6, 0, 0, 0, 0))}],
     [daily  |-> {Note_Tue_txt, Analysis_Tue},
      weekly |-> {}],
     [daily  |-> {}, weekly |-> {}]}

\* the environment the batch command line finds: no source configured, or
\* the removable mount
CliEnvirons == {NoEnviron, [NoEnviron EXCEPT !.EXTERNAL_INPUT_DIR = "exists"]}

\* the batch command line starts on Wednesday 2025-01-22 in one of the
\* directories
InitCli ==
    /\ now = datetime(2025, 1, 22, 10, 30, 0, 0)
    /\ result = NoResult
    /\ cli = NoCli
    /\ environ \in CliEnvirons
    /\ session = NoSession
    /\ rounds = <<>>
    /\ run = NoRun
    /\ loading = NoLoading
    /\ root_exists \in BOOLEAN
    /\ dir_exists \in [NotesTypes -> BOOLEAN]
    /\ root_exists = FALSE => dir_exists = [d \in NotesTypes |-> FALSE]
    /\ \E s \in CliScenarios :
          files = [d \in NotesTypes |->
                     IF ~dir_exists[d] THEN EmptyDir
                     ELSE IF d = daily THEN [n \in s.daily |-> <<"n">>]
                     ELSE [n \in s.weekly |-> <<"w">>]]

----------------------------------------------------------------------------
(* The operations.                                                         *)

\* load_task_notes up to its return, its exception, or its call of
\* extract_text_from_image, on which it waits
load_begin(notes_type) ==
    /\ ~loading.active
    /\ result' = load_task_notes(notes_type, Extracting)
    /\ loading' = IF result'.status = "extracting"
                  THEN [active |-> TRUE, notes_type |-> notes_type,
                        notes_path |-> result'.extracted[1],
                        file_date |-> result'.date]
                  ELSE NoLoading

\* load_task_notes from the return of extract_text_from_image on: ocr is
\* what the extractor did; the call returns the note it had selected, or
\* passes the extractor's exception on
load_end(ocr) ==
    /\ loading.active
    /\ result' = read_note(loading.notes_path, loading.notes_type, ocr,
                           [NoResult EXCEPT !.op = "load_task_notes",
                                            !.notes_type = loading.notes_type],
                           [ok |-> TRUE, dt |-> loading.file_date])
    /\ loading' = NoLoading

\* a call of load_task_notes(notes_type) of tasker/files.py starts
Load(notes_type) ==
    /\ load_begin(notes_type)
    /\ UNCHANGED <<root_exists, dir_exists, files, now, cli, environ, session, rounds, run>>

\* extract_text_from_image returns or raises in the call that waits on it
LoadEnd(ocr) ==
    /\ load_end(ocr)
    /\ UNCHANGED <<root_exists, dir_exists, files, now, cli, environ, session, rounds, run>>

\* a call of load_task_notes(notes_type) of tasker/tasker.py
TaskerLoad(notes_type) ==
    /\ result' = tasker_load_task_notes(notes_type)
    /\ UNCHANGED <<root_exists, dir_exists, files, now, cli, environ, session, rounds, run, loading>>

\* a call of save_analysis(analysis, input_path, notes_type) of tasker/files.py
Save(analysis, input_path, notes_type) ==
    /\ result' = save_analysis(analysis, input_path, notes_type)
    /\ IF root_exists /\ dir_exists[input_path[1]]
       THEN files' = save_analysis_files(analysis, input_path, notes_type)
       ELSE UNCHANGED files
    /\ UNCHANGED <<root_exists, dir_exists, now, cli, environ, session, rounds, run, loading>>

\* a call of save_analysis(analysis, input_path, notes_type) of tasker/tasker.py
TaskerSave(analysis, input_path, notes_type) ==
    /\ result' = tasker_save_analysis(analysis, input_path, notes_type)
    /\ IF root_exists /\ dir_exists[input_path[1]]
       THEN files' = tasker_save_analysis_files(analysis, input_path, notes_type)
       ELSE UNCHANGED files
    /\ UNCHANGED <<root_exists, dir_exists, now, cli, environ, session, rounds, run, loading>>

\* a call of collect_weekly_analyses()
Collect ==
    /\ result' = collect_weekly_analyses(now)
    /\ dir_exists' = collect_weekly_analyses_dirs
    /\ UNCHANGED <<root_exists, files, now, cli, environ, session, rounds, run, loading>>

\* main() of tasker/tasker.py with --type notes_type, up to the call of
\* analyze_tasks: loaded is what collect_weekly_analyses or load_task_notes
\* returned or raised; an exception ends the run with status 1, otherwise the
\* run waits on analyze_tasks
main_begin(notes_type, loaded) ==
    LET base == [NoResult EXCEPT !.op = "main", !.notes_type = notes_type,
                                 !.today = IF notes_type = weekly THEN now ELSE NoDate,
                                 !.week_start = loaded.week_start,
                                 !.week_end = loaded.week_end]
    IN /\ ~run.active
       /\ dir_exists' = IF notes_type = weekly THEN collect_weekly_analyses_dirs
                        ELSE dir_exists
       /\ IF loaded.status # "ok"
          THEN /\ result' = [base EXCEPT !.status = loaded.status, !.exit = 1]
               /\ run' = NoRun
          ELSE /\ result' = [base EXCEPT !.status = "analyzing", !.exit = 0 - 1,
                                         !.input = loaded.path,
                                         !.read = loaded.read]
               /\ run' = [active |-> TRUE, notes_type |-> notes_type,
                          loaded |-> loaded]
       /\ UNCHANGED <<root_exists, files, now, cli, environ, session, loading>>

\* main() from the return of analyze_tasks on: llm is what analyze_tasks did;
\* its exception ends the run with status 1, otherwise save_analysis writes
\* the analysis next to the path that was loaded
main_end(llm) ==
    LET notes_type == run.notes_type
        loaded == run.loaded
        base == [NoResult EXCEPT !.op = "main", !.notes_type = notes_type,
                                 !.today = loaded.today,
                                 !.week_start = loaded.week_start,
                                 !.week_end = loaded.week_end,
                                 !.input = loaded.path, !.analyzed = TRUE]
        out == tasker_output_filename(loaded.path[2], notes_type)
    IN /\ run.active
       /\ IF ~llm.ok
          THEN /\ result' = [base EXCEPT !.status = "analyze_error", !.exit = 1]
               /\ UNCHANGED files
          ELSE /\ files' = tasker_save_analysis_files(llm.text, loaded.path, notes_type)
               /\ result' = [base EXCEPT
                     !.status = "ok", !.exit = 0,
                     !.analysis = llm.text,
                     !.path = <<loaded.path[1], out>>,
                     !.text = formatted_output(llm.text, notes_type),
                     !.existed = out \in DOMAIN files[loaded.path[1]]]
       /\ run' = NoRun
       /\ UNCHANGED <<root_exists, dir_exists, now, cli, environ, session, loading>>

\* a run of main() starts
MainBegin(notes_type) ==
    /\ main_begin(notes_type,
                  IF notes_type = weekly THEN collect_weekly_analyses(now)
                  ELSE tasker_load_task_notes(notes_type))
    /\ UNCHANGED rounds

\* analyze_tasks returns or raises in the run of main() that waits on it
MainEnd(llm) ==
    /\ main_end(llm)
    /\ UNCHANGED rounds

\* time passes
Tick ==
    /\ \E later \in NowSet : dt_lt(now, later) /\ now' = later
    /\ UNCHANGED <<root_exists, dir_exists, files, result, cli, environ, session, rounds, run, loading>>

\* the paths save_analysis is called with: the files of directory d that are
\* no analysis outputs
SaveInputs(d) ==
    {<<d, n>> : n \in {x \in DOMAIN files[d] : ~contains(x, <<"_","a","n","a","l","y","s","i","s">>)}}

\* no directory grows beyond n files
Within(n) == \A d \in NotesTypes : Cardinality(DOMAIN files'[d]) <= n

\* the loader and the writer, of tasker/files.py and of tasker/tasker.py
Next ==
    \/ \E t \in NotesTypes : Load(t)
    \/ \E ocr \in OcrOutcomes : LoadEnd(ocr)
    \/ \E t \in NotesTypes : TaskerLoad(t)
    \/ \E a \in Bodies, t \in NotesTypes : \E p \in SaveInputs(t) :
          Save(a, p, t) /\ Within(MaxFiles)
    \/ \E a \in Bodies, t \in NotesTypes : \E p \in SaveInputs(t) :
          TaskerSave(a, p, t) /\ Within(MaxFiles)

Spec == Init /\ [][Next]_vars

\* the weekly roll-up over the daily analyses that save_analysis writes
NextWeekly ==
    \/ \E p \in SaveInputs(daily) : Save(<<"P">>, p, daily) /\ Within(MaxRollupFiles)
    \/ Collect
    \/ \E t \in NotesTypes : MainBegin(t)
    \/ \E llm \in LlmOutcomes : MainEnd(llm) /\ Within(MaxRollupFiles)
    \/ Tick

SpecWeekly == InitWeekly /\ [][NextWeekly]_vars

\* the loader and the aggregator of tasker/files.py, on directories that may
\* be missing
NextDirs ==
    \/ \E t \in NotesTypes : Load(t)
    \/ \E ocr \in OcrOutcomes : LoadEnd(ocr)
    \/ Collect

SpecDirs == InitWeekly /\ [][NextDirs]_vars

\* the loader on a single note named after a valid date and time of day:
\* typed, scanned to an image, or scanned to a PDF document
StampKinds == {<<".","t","x","t">>, <<".","p","n","g">>, <<".","p","d","f">>}
StampYears   == {2024, 2025}
StampDays    == {1, 9, 10, 28, 29, 30, 31}
StampHours   == {0, 9, 23}
StampMinutes == {0, 59}
StampSeconds == {0, 7, 59}

\* YYYYMMDD_HHMMSS, the name a note written at that instant is given
StampName(y, mo, d, h, mi, sec) ==
    zpad(y, 4) \o zpad(mo, 2) \o zpad(d, 2) \o <<"_">>
        \o zpad(h, 2) \o zpad(mi, 2) \o zpad(sec, 2)

InitStamp ==
    /\ now = datetime(2025, 1, 15, 10, 30, 0, 0)
    /\ result = NoResult
    /\ cli = NoCli
    /\ environ = NoEnviron
    /\ session = NoSession
    /\ rounds = <<>>
    /\ run = NoRun
    /\ loading = NoLoading
    /\ root_exists = TRUE
    /\ dir_exists = [d \in NotesTypes |-> TRUE]
    /\ \E y \in StampYears, mo \in 1..12, d \in StampDays, h \in StampHours,
          mi \in StampMinutes, sec \in StampSeconds, ext \in StampKinds :
          /\ d <= days_in_month(y, mo)
          /\ files = [t \in NotesTypes |->
                        IF t = daily
                        THEN [n \in {StampName(y, mo, d, h, mi, sec) \o ext} |-> <<"n">>]
                        ELSE EmptyDir]

NextStamp ==
    \/ Load(daily)
    \/ \E ocr \in OcrOutcomes : LoadEnd(ocr)
    \/ TaskerLoad(daily)

SpecStamp == InitStamp /\ [][NextStamp]_vars

\* the batch command line of tasktriage/cli.py

\* faulty variant: a thread is started for every submitted future
pool_has_idle_worker_unbounded(c) == TRUE

\* a worker thread of the pool is idle
pool_has_idle_worker(c) == Cardinality(c.running) < max_workers

\* the futures submitted and not yet taken by a worker thread
queued(c) == {i \in 1..c.submitted : i \notin c.running /\ i \notin DOMAIN c.finished}

\* faulty variant: the run goes on once every future is submitted
fan_out_complete_no_wait(c) ==
    c.submitted = Len(c.loaded)

\* as_completed has yielded every future, and the with block is left
fan_out_complete(c) ==
    c.submitted = Len(c.loaded) /\ c.counted = 1..Len(c.loaded)

\* faulty variant: a failed file is not counted
count_result_ignore_failure(c, success) ==
    IF success THEN [c EXCEPT !.successful = @ + 1] ELSE c

\* the counters after a future's result is taken
count_result(c, success) ==
    IF success THEN [c EXCEPT !.successful = @ + 1]
    ELSE [c EXCEPT !.failed = @ + 1]

\* if failed > 0: sys.exit(1)
exit_status(c) == IF c.failed > 0 THEN 1 ELSE 0

\* main() up to the fan-out: the arguments are parsed, the notes source is
\* resolved and the unanalyzed daily notes are loaded; an exception of either
\* ends the run with status 1 (loaded is what the loader gives when called)
cli_loaded(c, file_preference, source, loaded) ==
    IF ~source.ok
    THEN [c EXCEPT !.stage = "done", !.status = "ValueError",
                   !.file_preference = file_preference, !.exit = 1]
    ELSE IF loaded.status # "ok"
    THEN [c EXCEPT !.stage = "done", !.status = loaded.status,
                   !.source = source.source,
                   !.file_preference = file_preference, !.exit = 1]
    ELSE [c EXCEPT !.stage = "fanout", !.status = "ok",
                   !.source = source.source,
                   !.file_preference = file_preference,
                   !.loaded = loaded.items,
                   !.attempts = [i \in 1..Len(loaded.items) |-> 0]]

CliLoad(file_preference, ocr) ==
    /\ cli.stage = "start"
    /\ cli' = cli_loaded(cli, file_preference, get_notes_source(environ),
                         load_all_unanalyzed_task_notes(daily, file_preference, ocr))
    /\ UNCHANGED <<root_exists, dir_exists, files, now, result, environ, session, rounds, run, loading>>

\* executor.submit(analyze_single_file, ...) for the next loaded file
CliSubmit ==
    /\ cli.stage = "fanout"
    /\ cli.submitted < Len(cli.loaded)
    /\ cli' = [cli EXCEPT !.submitted = @ + 1]
    /\ UNCHANGED <<root_exists, dir_exists, files, now, result, environ, session, rounds, run, loading>>

\* an idle worker thread takes the oldest queued future and enters
\* analyze_single_file
WorkerStart(i) ==
    /\ cli.stage = "fanout"
    /\ i \in queued(cli)
    /\ \A j \in queued(cli) : i <= j
    /\ pool_has_idle_worker(cli)
    /\ cli' = [cli EXCEPT !.running = @ \cup {i}, !.attempts[i] = @ + 1]
    /\ UNCHANGED <<root_exists, dir_exists, files, now, result, environ, session, rounds, run, loading>>

\* analyze_single_file returns for file i: analyze_tasks returned or raised
\* (llm), the analysis was saved, the future completes
WorkerFinish(i, llm) ==
    /\ cli.stage = "fanout"
    /\ i \in cli.running
    /\ files' = analyze_single_file_files(cli.loaded[i], daily, llm)
    /\ cli' = [cli EXCEPT
                 !.running = @ \ {i},
                 !.finished = [j \in DOMAIN @ \cup {i} |->
                                 IF j = i THEN analyze_single_file(cli.loaded[i], daily, llm)
                                 ELSE @[j]]]
    /\ UNCHANGED <<root_exists, dir_exists, now, result, environ, session, rounds, run, loading>>

\* one turn of "for future in as_completed(future_to_file)"
CliCount(i) ==
    /\ cli.stage = "fanout"
    /\ cli.submitted = Len(cli.loaded)
    /\ i \in DOMAIN cli.finished
    /\ i \notin cli.counted
    /\ cli' = [count_result(cli, cli.finished[i].success) EXCEPT !.counted = @ \cup {i}]
    /\ UNCHANGED <<root_exists, dir_exists, files, now, result, environ, session, rounds, run, loading>>

\* the with block is left and the summary is printed
CliSummary ==
    /\ cli.stage = "fanout"
    /\ fan_out_complete(cli)
    /\ cli' = [cli EXCEPT !.stage = "summary"]
    /\ UNCHANGED <<root_exists, dir_exists, files, now, result, environ, session, rounds, run, loading>>

\* the weeks needing analysis are looked up; with none the run ends
CliFindWeeks ==
    /\ cli.stage = "summary"
    /\ LET weeks_to_analyze == find_weeks_needing_analysis(now)
       IN cli' = IF weeks_to_analyze = <<>>
                 THEN [cli EXCEPT !.stage = "done", !.exit = exit_status(cli)]
                 ELSE [cli EXCEPT !.stage = "weekly", !.weeks = weeks_to_analyze,
                                  !.week = 1]
    /\ UNCHANGED <<root_exists, dir_exists, files, now, result, environ, session, rounds, run, loading>>

\* one turn of "for week_start, week_end in weeks_to_analyze" for what
\* collect_weekly_analyses_for_week returned or raised (collected): collect,
\* analyze, save; an exception counts the week as failed
CliWeekRun(window, llm, collected) ==
    /\ dir_exists' = collect_weekly_analyses_dirs
    /\ IF collected.status = "ok" /\ llm.ok
       THEN /\ files' = save_analysis_files(llm.text, collected.path, weekly)
            /\ cli' = [cli EXCEPT !.week = @ + 1, !.weekly_successful = @ + 1,
                                  !.weekly_log = Append(@, [week_start |-> window.week_start,
                                                            success |-> TRUE])]
       ELSE /\ UNCHANGED files
            /\ cli' = [cli EXCEPT !.week = @ + 1, !.weekly_failed = @ + 1,
                                  !.weekly_log = Append(@, [week_start |-> window.week_start,
                                                            success |-> FALSE])]
    /\ UNCHANGED <<root_exists, now, result, environ, session, rounds, run, loading>>

CliWeek(llm) ==
    /\ cli.stage = "weekly"
    /\ cli.week <= Len(cli.weeks)
    /\ CliWeekRun(cli.weeks[cli.week], llm,
                  collect_weekly_analyses_for_week(cli.weeks[cli.week].week_start,
                                                   cli.weeks[cli.week].week_end, now))

\* the weekly summary is printed and main() ends
CliExit ==
    /\ cli.stage = "weekly"
    /\ cli.week > Len(cli.weeks)
    /\ cli' = [cli EXCEPT !.stage = "done", !.exit = exit_status(cli)]
    /\ UNCHANGED <<root_exists, dir_exists, files, now, result, environ, session, rounds, run, loading>>

NextCli ==
    \/ \E p \in FilePreferences, ocr \in OcrOutcomes : CliLoad(p, ocr)
    \/ CliSubmit
    \/ \E i \in 1..Len(cli.loaded) : WorkerStart(i)
    \/ \E i \in cli.running, llm \in LlmOutcomes : WorkerFinish(i, llm)
    \/ \E i \in DOMAIN cli.finished : CliCount(i)
    \/ CliSummary
    \/ CliFindWeeks
    \/ \E llm \in LlmOutcomes : CliWeek(llm)
    \/ CliExit

SpecCli == InitCli /\ [][NextCli]_vars

\* the main thread and every worker thread that can take a step eventually
\* take it, and every call of analyze_tasks returns
FairCli ==
    /\ WF_vars(CliSubmit)
    /\ WF_vars(\E i \in 1..Len(cli.loaded) : WorkerStart(i))
    /\ WF_vars(\E i \in cli.running, llm \in LlmOutcomes : WorkerFinish(i, llm))
    /\ WF_vars(\E i \in DOMAIN cli.finished : CliCount(i))
    /\ WF_vars(CliSummary)

SpecCliFair == SpecCli /\ FairCli

----------------------------------------------------------------------------
(* The properties.                                                         *)

\* the name of the analysis file of a source: stem, ".", period, "_analysis.txt"
ExpectedAnalysisName(name, t) ==
    stem(name) \o <<".">> \o t \o <<"_","a","n","a","l","y","s","i","s",".","t","x","t">>

\* the candidate notes of directory t: a supported extension, no analysis output
Candidates(t, exts) ==
    {n \in DOMAIN files[t] :
        /\ \E e \in exts : endswith(n, e)
        /\ ~contains(n, <<"_","a","n","a","l","y","s","i","s">>)}

\* the candidates whose analysis file does not exist
Unanalyzed(t, exts) ==
    {n \in Candidates(t, exts) : ExpectedAnalysisName(n, t) \notin DOMAIN files[t]}

\* the reports analyze_tasks may have produced, as save_analysis writes them
WrittenReports(t) == {formatted_output(b, t) : b \in Bodies}

LoadReturned == result.op = "load_task_notes" /\ result.status = "ok"
TaskerLoadReturned == result.op = "tasker_load_task_notes" /\ result.status = "ok"

\* result is the outcome of the step in which load_task_notes examined the
\* directory: the call returned a text note, raised, or selected an image and
\* waits on extract_text_from_image; the files are as the call found them
LoadExamined ==
    /\ result.op = "load_task_notes"
    /\ result.extracted # <<>> => result.status = "extracting"

\* the call selected a note: the first one it found without an analysis file
LoadSelected == LoadExamined /\ result.status \in {"ok", "extracting"}

\* the note the call selected
Selected ==
    IF result.status = "extracting" THEN result.extracted[1] ELSE result.path[2]

\* the step in which extract_text_from_image returns to the waiting call: the
\* call returns the image it had selected, with the date parsed from its name,
\* or passes the extractor's exception on; it looks at no file again
ReturnsSelected ==
    (loading.active /\ ~loading'.active) =>
        /\ result'.op = "load_task_notes"
        /\ result'.notes_type = loading.notes_type
        /\ result'.status \in {"ok", "extract_error"}
        /\ result'.extracted = <<loading.notes_path>>
        /\ result'.read = <<>>
        /\ result'.status = "ok" =>
              /\ result'.path = <<loading.notes_type, loading.notes_path>>
              /\ result'.date = loading.file_date
        /\ files' = files

\* C1 as stated: load_task_notes never returns a note whose analysis file
\* {stem}.{notes_type}_analysis.txt exists in the directory, whatever loads
\* and saves happen.
C1_NeverReturnsAnalyzed ==
    LoadReturned =>
        ExpectedAnalysisName(result.path[2], result.notes_type)
            \notin DOMAIN files[result.notes_type]

\* the note a call selects has no analysis file when the call examines the
\* directory
C1_NeverSelectsAnalyzed ==
    LoadSelected =>
        ExpectedAnalysisName(Selected, result.notes_type)
            \notin DOMAIN files[result.notes_type]

\* an analysis file that exists stays; no call that examines the directory
\* from then on selects its note, and the note is returned only by the call
\* that was already waiting on the text extractor for it
C1_Step ==
    \A t \in NotesTypes : \A F \in DOMAIN files[t] :
        ExpectedAnalysisName(F, t) \in DOMAIN files[t] =>
            /\ ExpectedAnalysisName(F, t) \in DOMAIN files'[t]
            /\ (/\ result'.op = "load_task_notes"
                /\ result'.notes_type = t
                /\ \/ result'.status = "ok" /\ result'.path = <<t, F>>
                   \/ result'.status = "extracting" /\ result'.extracted = <<F>>)
                  => /\ loading.active
                     /\ loading.notes_type = t
                     /\ loading.notes_path = F
                     /\ result'.status = "ok"

\* C1, amended: load_task_notes never selects, and so never returns, a note
\* whose analysis file {stem}.{notes_type}_analysis.txt exists in the
\* directory when the call examines it; an analysis file that exists stays,
\* and no call that starts after it was written returns its note.  Only a call
\* that had selected an image and was waiting on the text extractor when the
\* analysis was written returns a note whose analysis exists.
C1_Dedup == [](C1_NeverSelectsAnalyzed) /\ [][C1_Step]_vars /\ [][ReturnsSelected]_vars

\* C1 witness: a load returned an image, with the extracted text, whose
\* analysis save_analysis wrote while the call was waiting on the text
\* extractor.
C1_Witness ==
    /\ LoadReturned
    /\ result.extracted = <<result.path[2]>>
    /\ result.text \in {o.text : o \in {x \in OcrOutcomes : x.ok}}
    /\ ExpectedAnalysisName(result.path[2], result.notes_type)
          \in DOMAIN files[result.notes_type]
    /\ files[result.notes_type][ExpectedAnalysisName(result.path[2], result.notes_type)]
          \in WrittenReports(result.notes_type)

\* the returned note is the greatest name among the unanalyzed candidates
ReturnedGreatest(exts) ==
    LET U == Unanalyzed(result.notes_type, exts)
    IN /\ result.path[1] = result.notes_type
       /\ result.path[2] \in U
       /\ \A n \in U : n = result.path[2] \/ str_lt(n, result.path[2])

\* the selected note is the greatest name among the unanalyzed candidates
SelectedGreatest(exts) ==
    LET U == Unanalyzed(result.notes_type, exts)
    IN /\ Selected \in U
       /\ \A n \in U : n = Selected \/ str_lt(n, Selected)

\* a stem of the exact form YYYYMMDD_HHMMSS
ExactFormat(s) ==
    /\ Len(s) = 15
    /\ \A i \in (1..8) \cup (10..15) : IsDigit(s[i])
    /\ s[9] = "_"

\* the returned or selected note carries the newest timestamp among the
\* unanalyzed candidates whose name gives one
ReturnedNewest(exts) ==
    LET U == Unanalyzed(result.notes_type, exts)
    IN \A n \in U : strptime(stem(n)).ok => dt_le(strptime(stem(n)).dt, result.date)

\* C2 as stated: load_task_notes (tasker/files.py over all supported
\* extensions, tasker/tasker.py over .txt) returns the candidate with the
\* greatest file name among the candidates without an analysis file, that is
\* the one with the newest timestamp, also when greater-named notes that have
\* an analysis are present, and reports that there is none only when there is
\* none.  The directory is the one the call examines.
C2_NewestFirst ==
    /\ LoadSelected => SelectedGreatest(ALL_EXTENSIONS) /\ ReturnedNewest(ALL_EXTENSIONS)
    /\ (LoadExamined /\ LoadReturned) => ReturnedGreatest(ALL_EXTENSIONS)
    /\ TaskerLoadReturned => ReturnedGreatest(TEXT_EXTENSIONS) /\ ReturnedNewest(TEXT_EXTENSIONS)
    /\ (result.op = "load_task_notes" /\ result.status = "no_unanalyzed")
          => Unanalyzed(result.notes_type, ALL_EXTENSIONS) = {}

\* C9: with the directory present, if no candidate lacks its analysis (all are
\* analyzed, or there is no candidate), load_task_notes raises the
\* no-unanalyzed FileNotFoundError and returns nothing.  The directory is the
\* one the call examines.
C9_NothingToLoad ==
    (/\ LoadExamined
     /\ root_exists
     /\ dir_exists[result.notes_type]
     /\ Unanalyzed(result.notes_type, ALL_EXTENSIONS) = {})
        => /\ result.status = "no_unanalyzed"
           /\ result.path = NoPath
           /\ result.text = <<>>

\* C9 witness: the load failed with a candidate in the directory, every
\* candidate having its analysis.
C9_Witness ==
    /\ result.op = "load_task_notes"
    /\ result.status = "no_unanalyzed"
    /\ Candidates(result.notes_type, ALL_EXTENSIONS) # {}

----------------------------------------------------------------------------
(* The writer.                                                             *)

SaveReturned == result.op = "save_analysis" /\ result.status = "ok"
TaskerSaveReturned == result.op = "tasker_save_analysis" /\ result.status = "ok"

\* the returned path names a file of the input's directory that holds the
\* report
WrittenAt(name) ==
    /\ result.path = <<result.input[1], name>>
    /\ name \in DOMAIN files[result.input[1]]
    /\ files[result.input[1]][name] = result.text

\* C6 as stated: both save_analysis functions write to and return
\* {parent}/{stem}.{notes_type}_analysis.txt, whatever the input's extension.
C6_AlwaysTxt ==
    (SaveReturned \/ TaskerSaveReturned) =>
        WrittenAt(ExpectedAnalysisName(result.input[2], result.notes_type))

\* C6: save_analysis of tasker/files.py writes to and returns
\* {parent}/{stem}.{notes_type}_analysis.txt for every input extension;
\* save_analysis of tasker/tasker.py keeps the extension of the input and
\* writes to {parent}/{stem}.{notes_type}_analysis{suffix}.
C6_OutputNaming ==
    /\ SaveReturned =>
          WrittenAt(ExpectedAnalysisName(result.input[2], result.notes_type))
    /\ TaskerSaveReturned =>
          WrittenAt(stem(result.input[2]) \o <<".">> \o result.notes_type
                      \o <<"_","a","n","a","l","y","s","i","s">>
                      \o suffix(result.input[2]))

\* C6 witness: save_analysis of tasker/files.py saved the daily analysis of
\* 20251231_143000.png as 20251231_143000.daily_analysis.txt.
C6_Witness ==
    /\ SaveReturned
    /\ result.notes_type = daily
    /\ result.input = <<daily, Note_Example_png>>
    /\ result.path = <<daily, <<"2","0","2","5","1","2","3","1","_","1","4","3","0","0","0",".","d","a","i","l","y","_","a","n","a","l","y","s","i","s",".","t","x","t">>>>

\* C7: the file save_analysis wrote is the line "{Notes_type} Task Analysis",
\* a line of 40 "=", a blank line, the report body and a final newline, and
\* nothing else.
C7_ReportLayout ==
    (SaveReturned \/ TaskerSaveReturned) =>
        LET out    == files[result.path[1]][result.path[2]]
            period == IF result.notes_type = daily THEN <<"D","a","i","l","y">>
                      ELSE <<"W","e","e","k","l","y">>
            h      == Len(period) + 14
            body   == result.analysis
        IN /\ Len(out) = h + 1 + 40 + 1 + 1 + Len(body) + 1
           /\ SubSeq(out, 1, Len(period)) = period
           /\ SubSeq(out, Len(period) + 1, h)
                 = <<" ","T","a","s","k"," ","A","n","a","l","y","s","i","s">>
           /\ out[h + 1] = "\n"
           /\ \A i \in 1..40 : out[h + 1 + i] = "="
           /\ out[h + 42] = "\n"
           /\ out[h + 43] = "\n"
           /\ SubSeq(out, h + 44, h + 43 + Len(body)) = body
           /\ out[Len(out)] = "\n"

\* C7 witness: a weekly report with a body of two lines was saved.
C7_Witness ==
    /\ SaveReturned
    /\ result.notes_type = weekly
    /\ result.analysis = <<"Q", "\n", "R">>
    /\ Len(files[result.path[1]][result.path[2]]) = 67

\* a save_analysis call whose output file exists before the call
C8_Step ==
    LET d   == result'.input[1]
        out == ExpectedAnalysisName(result'.input[2], result'.notes_type)
    IN (/\ result'.op = "save_analysis"
        /\ root_exists /\ dir_exists[d]
        /\ out \in DOMAIN files[d])
        => /\ result'.status = "ok"
           /\ result'.path = <<d, out>>
           /\ files'[d][out] = result'.text
           /\ result'.text \in WrittenReports(result'.notes_type)
           /\ DOMAIN files'[d] = DOMAIN files[d]
           /\ \A n \in DOMAIN files[d] : n # out => files'[d][n] = files[d][n]
           /\ \A e \in NotesTypes : e # d => files'[e] = files[e]
           /\ (/\ SaveReturned
               /\ result.input = result'.input
               /\ result.notes_type = result'.notes_type
               /\ result.analysis = result'.analysis) => files' = files

\* C8: save_analysis for a source and period whose output file exists succeeds
\* and replaces the content of that file, and of that file only, with the new
\* report; saving the same report again changes no file.
C8_Overwrite == [][C8_Step]_vars

\* C8 witness: a save replaced an output that held a different text.
C8_Witness ==
    /\ SaveReturned
    /\ result.existed
    /\ result.previous # result.text
    /\ files[result.path[1]][result.path[2]] = result.text

----------------------------------------------------------------------------
(* The weekly roll-up.                                                     *)

CollectRan ==
    /\ result.op = "collect_weekly_analyses"
    /\ result.status \in {"ok", "no_daily_analyses"}

RollupRan ==
    \/ CollectRan
    \/ /\ result.op = "main"
       /\ result.notes_type = weekly
       /\ result.status \in {"analyzing", "no_daily_analyses"}

\* C3 as stated: the window starts on a Monday at 00:00:00, ends on the Sunday
\* six days later at 23:59:59.999999, and lies in the past: its end is not
\* after now.
C3_WeekWindow ==
    CollectRan =>
        /\ weekday(result.week_start) = 0
        /\ result.week_start = [result.week_start EXCEPT
              !.hour = 0, !.minute = 0, !.second = 0, !.microsecond = 0]
        /\ weekday(result.week_end) = 6
        /\ result.week_end = [minus_days(result.week_start, 0 - 6) EXCEPT
              !.hour = 23, !.minute = 59, !.second = 59, !.microsecond = 999999]
        /\ dt_le(result.week_end, result.today)

DailyAnalysisPattern == <<".","d","a","i","l","y","_","a","n","a","l","y","s","i","s",".","t","x","t">>

\* the timestamp at the head of a file name, up to the first "."
LeadingTimestamp(name) == strptime(split_dot_first(stem(name)))

\* the files of the daily directory named *.daily_analysis.txt whose leading
\* timestamp parses and lies between week_start and week_end, bounds included
InWindowAnalyses(week_start, week_end) ==
    {n \in DOMAIN files[daily] :
        /\ endswith(n, DailyAnalysisPattern)
        /\ LeadingTimestamp(n).ok
        /\ dt_le(week_start, LeadingTimestamp(n).dt)
        /\ dt_le(LeadingTimestamp(n).dt, week_end)}

Range(s) == {s[i] : i \in DOMAIN s}

\* "## <Weekday, Month DD, YYYY>", a blank line, the content of the file
LabelledEntry(name) ==
    <<"#", "#", " ">> \o strftime_label(LeadingTimestamp(name).dt) \o <<"\n", "\n">>
        \o files[daily][name]

\* the entries of the listed files, in the listed order, with "---" between a
\* blank line before and after
RECURSIVE Combined(_)
Combined(names) ==
    IF names = <<>> THEN <<>>
    ELSE IF Len(names) = 1 THEN LabelledEntry(names[1])
    ELSE LabelledEntry(names[1]) \o <<"\n", "\n", "-", "-", "-", "\n", "\n">>
            \o Combined(Tail(names))

\* C4: collect_weekly_analyses builds the combined text from exactly the files
\* of the daily directory named *.daily_analysis.txt whose leading timestamp
\* parses and lies in [week_start, week_end], each once; every analysis that
\* save_analysis wrote for a note with a timestamp in the window is among them.
C4_Selection ==
    RollupRan =>
        /\ Range(result.read) = InWindowAnalyses(result.week_start, result.week_end)
        /\ Len(result.read) = Cardinality(Range(result.read))
        /\ result.status = "ok" /\ result.op = "collect_weekly_analyses"
              => result.text = Combined(result.read)
        /\ \A n \in DOMAIN files[daily] :
              (/\ ~contains(n, <<"_","a","n","a","l","y","s","i","s">>)
               /\ strptime(stem(n)).ok
               /\ dt_le(result.week_start, strptime(stem(n)).dt)
               /\ dt_le(strptime(stem(n)).dt, result.week_end)
               /\ ExpectedAnalysisName(n, daily) \in DOMAIN files[daily])
                 => ExpectedAnalysisName(n, daily) \in Range(result.read)

\* C4 witness: the roll-up took the analysis that save_analysis wrote for a
\* note dated at the very start of the window, and left out a file named
\* *.daily_analysis.txt of the same directory.
C4_Witness ==
    /\ CollectRan
    /\ result.status = "ok"
    /\ \E n \in Range(result.read) :
          /\ LeadingTimestamp(n).dt = result.week_start
          /\ files[daily][n] \in WrittenReports(daily)
    /\ \E x \in DOMAIN files[daily] :
          endswith(x, DailyAnalysisPattern) /\ x \notin Range(result.read)

\* C5 as stated: the combined text lists the in-window analyses in ascending
\* order of their timestamps, each under its "## <Weekday, Month DD, YYYY>"
\* label, with "---" between two adjacent entries and none before the first or
\* after the last.
C5_OrderAndLayout ==
    (CollectRan /\ result.status = "ok") =>
        /\ \A i \in 1..(Len(result.read) - 1) :
              dt_le(LeadingTimestamp(result.read[i]).dt,
                    LeadingTimestamp(result.read[i + 1]).dt)
        /\ result.text = Combined(result.read)

\* C10: when no file named *.daily_analysis.txt has a timestamp in the week
\* window, collect_weekly_analyses raises the no-daily-analyses error and
\* returns neither text nor path; main then exits with status 1 without calling
\* analyze_tasks, and no weekly analysis of that window is in the weekly
\* directory.
C10_NoRollupWithoutInputs ==
    (/\ result.op = "collect_weekly_analyses"
        \/ (result.op = "main" /\ result.notes_type = weekly)
     /\ root_exists
     /\ dir_exists[daily]
     /\ InWindowAnalyses(week_window(result.today).week_start,
                         week_window(result.today).week_end) = {})
        => /\ result.status = "no_daily_analyses"
           /\ result.text = <<>>
           /\ result.path = NoPath
           /\ result.read = <<>>
           /\ ~result.analyzed
           /\ result.op = "main" => result.exit = 1
           /\ \A n \in DOMAIN files[weekly] :
                 ~(\E i \in 1..Len(n) :
                      SubSeq(n, 1, i) = strftime_ymd(week_window(result.today).week_start))

\* C10 witness: main --type weekly gave up although the daily directory holds
\* files named *.daily_analysis.txt, none of them dated in the window.
C10_Witness ==
    /\ result.op = "main"
    /\ result.notes_type = weekly
    /\ result.status = "no_daily_analyses"
    /\ \E x \in DOMAIN files[daily] :
          endswith(x, DailyAnalysisPattern) /\ LeadingTimestamp(x).ok

\* the batch command line loaded its files and left the fan-out
FanOutLeft == cli.stage \in {"summary", "weekly", "done"} /\ cli.status = "ok"

\* the loaded files whose processing raised
Raised == {i \in DOMAIN cli.finished : ~cli.finished[i].success}

\* C11: in the batch command line an exception raised while one daily file is
\* analyzed or saved is captured for that file only: once the fan-out is left,
\* whatever the order in which the workers completed, every loaded file was
\* attempted exactly once, successful + failed is the number of loaded files
\* and failed is the number of files whose processing raised; and once the run
\* has ended every due week was attempted, in order, whether or not an earlier
\* one failed.
C11_FailureIsolation ==
    /\ FanOutLeft =>
          /\ \A i \in 1..Len(cli.loaded) :
                cli.attempts[i] = 1 /\ i \in DOMAIN cli.finished
          /\ cli.successful + cli.failed = Len(cli.loaded)
          /\ cli.failed = Cardinality(Raised)
          /\ \A i \in DOMAIN cli.finished :
                cli.finished[i].success =>
                    output_filename(cli.loaded[i].path[2], daily) \in DOMAIN files[daily]
    /\ (FanOutLeft /\ cli.stage = "done") =>
          /\ Len(cli.weekly_log) = Len(cli.weeks)
          /\ \A k \in 1..Len(cli.weeks) :
                cli.weekly_log[k].week_start = cli.weeks[k].week_start
          /\ cli.weekly_successful + cli.weekly_failed = Len(cli.weeks)
          /\ cli.weekly_failed =
                Cardinality({k \in 1..Len(cli.weekly_log) : ~cli.weekly_log[k].success})

\* C11 witness: a run over six files ended with two files failed and four
\* analyzed, the first due week failed and the second one analyzed.
C11_Witness ==
    /\ cli.stage = "done"
    /\ Len(cli.loaded) = 6
    /\ Raised = {2, 5}
    /\ cli.failed = 2
    /\ cli.successful = 4
    /\ Len(cli.weekly_log) = 2
    /\ ~cli.weekly_log[1].success
    /\ cli.weekly_log[2].success

\* C12 as stated: the batch command line exits with status 0 exactly when no
\* fatal setup error occurred and every attempted item, daily analysis or
\* weekly roll-up, succeeded; otherwise it exits with status 1.
C12_ExitStatus ==
    cli.stage = "done" =>
        /\ cli.exit \in {0, 1}
        /\ cli.exit = 0 <=> /\ cli.status = "ok"
                            /\ cli.failed = 0
                            /\ cli.weekly_failed = 0

\* the weekly analysis of the window that starts at week_start is saved
WeeklyAnalysisSaved(week_start) ==
    /\ week_start # NoDate
    /\ weekly_analysis_filename(week_start) \in DOMAIN files[weekly]

\* a run of main --type weekly for a window whose weekly analysis is saved
\* neither calls analyze_tasks nor writes a file
C13_Step ==
    (/\ result'.op = "main"
     /\ result'.notes_type = weekly
     /\ WeeklyAnalysisSaved(result'.week_start))
        => /\ ~result'.analyzed
           /\ result'.path = NoPath
           /\ files' = files

\* C13 as stated: a weekly roll-up is attempted only if no output for its
\* window exists yet; running the weekly analysis again for a window whose
\* weekly analysis file is saved neither invokes the analysis again nor
\* rewrites the saved file.
C13_DueOnce == [][C13_Step]_vars

\* the weekly stage has begun: the due weeks were looked up, or one was
\* collected or analyzed
WeeklyStageBegun ==
    cli.stage = "weekly" \/ cli.weeks # <<>> \/ cli.weekly_log # <<>>

\* C14: in the batch command line no weekly roll-up is evaluated, collected or
\* analyzed until every submitted daily worker has finished, succeeded or
\* failed: once the weekly stage has begun every loaded file was submitted, no
\* worker is running or waiting, every future has completed, and the roll-ups
\* run one after the other in the order of the due weeks.
C14_StageOrder ==
    WeeklyStageBegun =>
        /\ cli.submitted = Len(cli.loaded)
        /\ cli.running = {}
        /\ queued(cli) = {}
        /\ DOMAIN cli.finished = 1..Len(cli.loaded)
        /\ \A i \in 1..Len(cli.loaded) : cli.attempts[i] = 1
        /\ cli.stage = "weekly" => cli.week = Len(cli.weekly_log) + 1
        /\ Len(cli.weekly_log) <= Len(cli.weeks)

\* C14 witness: after a fan-out over six files, one of which failed, the
\* first of two due weeks has been analyzed and the second is still to come.
C14_Witness ==
    /\ cli.stage = "weekly"
    /\ Len(cli.loaded) = 6
    /\ cli.failed = 1
    /\ Len(cli.weeks) = 2
    /\ Len(cli.weekly_log) = 1
    /\ cli.weekly_log[1].success

\* the analysis output a worker writes for loaded file i
WorkerOutput(i) == output_filename(cli.loaded[i].path[2], daily)

\* two workers are in flight that write the same output file
WorkersRace ==
    \E i, j \in cli.running : i # j /\ WorkerOutput(i) = WorkerOutput(j)

\* C15 as stated: any two distinct source files processed in one run of the
\* batch command line map to distinct analysis output paths, so in no
\* interleaving are two workers in flight that write the same output file.
C15_DistinctOutputs ==
    /\ \A i, j \in 1..Len(cli.loaded) :
          cli.loaded[i].path # cli.loaded[j].path => WorkerOutput(i) # WorkerOutput(j)
    /\ ~WorkersRace

\* every loaded file was processed and the summary was printed
SummaryReached ==
    /\ FanOutLeft
    /\ DOMAIN cli.finished = 1..Len(cli.loaded)
    /\ cli.counted = 1..Len(cli.loaded)

\* C16: at most 5 daily analyses are in flight at any time of the fan-out,
\* whatever the number of unanalyzed files, a submitted file being started
\* only when a worker is free; and, every analysis call returning, a run that
\* entered the fan-out eventually has processed every submitted file and
\* reached the summary.
C16_BoundedPool ==
    /\ [](Cardinality(cli.running) <= max_workers)
    /\ (cli.stage = "fanout") ~> SummaryReached

\* C16 witness: six files are submitted, five are in flight and the sixth
\* waits for a free worker.
C16_Witness ==
    /\ cli.stage = "fanout"
    /\ cli.submitted = 6
    /\ Cardinality(cli.running) = max_workers
    /\ queued(cli) = {6}

\* the part of a file name up to its first "."
UpToFirstDot(name) == split_dot_first(stem(name))

\* the candidate load_task_notes reaches first: the greatest unanalyzed name
FirstUnanalyzed(t) ==
    CHOOSE G \in Unanalyzed(t, ALL_EXTENSIONS) :
        \A n \in Unanalyzed(t, ALL_EXTENSIONS) : n = G \/ str_lt(n, G)

\* C17 as stated: the timestamp of a file is parsed from its name up to the
\* first ".", which must have the form YYYYMMDD_HHMMSS exactly: load_task_notes
\* returns a file only if its name has that form and fails with a parse error
\* exactly when the file it reaches has not; collect_weekly_analyses reads
\* only analysis files of that form and skips the others.
C17_ParseRule ==
    /\ LoadReturned => ExactFormat(UpToFirstDot(result.path[2]))
    /\ (/\ LoadExamined
        /\ root_exists
        /\ dir_exists[result.notes_type]
        /\ Unanalyzed(result.notes_type, ALL_EXTENSIONS) # {})
          => (result.status = "ValueError"
                <=> ~ExactFormat(UpToFirstDot(FirstUnanalyzed(result.notes_type))))
    /\ CollectRan => \A i \in 1..Len(result.read) :
                        ExactFormat(UpToFirstDot(result.read[i]))

\* dt.strftime("%Y%m%d_%H%M%S")
strftime_stamp(dt) ==
    zpad(dt.year, 4) \o zpad(dt.month, 2) \o zpad(dt.day, 2) \o <<"_">>
        \o zpad(dt.hour, 2) \o zpad(dt.minute, 2) \o zpad(dt.second, 2)

\* the number written in the characters from..to of a stem
Written(s, from, to) ==
    IF from = to THEN DigitVal(s[from])
    ELSE LET RECURSIVE value(_)
             value(i) == IF i < from THEN 0 ELSE value(i - 1) * 10 + DigitVal(s[i])
         IN value(to)

\* the date carries the fields written in the stem and formats back to it
RoundTrips(name, date) ==
    /\ date.year = Written(stem(name), 1, 4)
    /\ date.month = Written(stem(name), 5, 6)
    /\ date.day = Written(stem(name), 7, 8)
    /\ date.hour = Written(stem(name), 10, 11)
    /\ date.minute = Written(stem(name), 12, 13)
    /\ date.second = Written(stem(name), 14, 15)
    /\ date.microsecond = 0
    /\ strftime_stamp(date) = stem(name)

\* the single note is named YYYYMMDD_HHMMSS.ext after a valid date and time
ValidStampNote(name) ==
    /\ ExactFormat(stem(name))
    /\ Written(stem(name), 5, 6) \in 1..12
    /\ Written(stem(name), 7, 8) \in 1..days_in_month(Written(stem(name), 1, 4),
                                                     Written(stem(name), 5, 6))
    /\ Written(stem(name), 10, 11) \in 0..23
    /\ Written(stem(name), 12, 13) \in 0..59
    /\ Written(stem(name), 14, 15) \in 0..59

\* C18: for a note named YYYYMMDD_HHMMSS.ext after a valid calendar date and
\* time of day, load_task_notes does not fail to parse the name, and the
\* datetime it returns has exactly the year, month, day, hour, minute and
\* second written in the name; formatted back as YYYYMMDD_HHMMSS it is the
\* stem of the name.
C18_RoundTrip ==
    /\ (LoadReturned \/ TaskerLoadReturned) =>
          (ValidStampNote(result.path[2]) => RoundTrips(result.path[2], result.date))
    /\ (result.op = "load_task_notes" /\ result.status = "ValueError")
          => ~ValidStampNote(FirstUnanalyzed(result.notes_type))

\* C18 witness: the note of the leap day 20240229_235959 was loaded, with
\* that date and time.
C18_Witness ==
    /\ LoadReturned
    /\ stem(result.path[2]) = StampName(2024, 2, 29, 23, 59, 59)
    /\ result.date = datetime(2024, 2, 29, 23, 59, 59, 0)

\* the period directory a call looks for
PeriodDirectory(r) ==
    IF r.op = "load_task_notes" THEN r.notes_type ELSE daily

\* the call left no trace: nothing returned, nothing read or extracted, no
\* file and no directory created or changed
FailedBeforeAnyFile ==
    /\ result'.text = <<>>
    /\ result'.path = NoPath
    /\ result'.read = <<>>
    /\ result'.extracted = <<>>
    /\ files' = files
    /\ dir_exists' = dir_exists

\* a call of load_task_notes or collect_weekly_analyses with the root absent
\* raises not-mounted, with the root present and the period directory absent
\* raises directory-not-found, in both cases before any file is touched
C19_Step ==
    result'.op \in {"load_task_notes", "collect_weekly_analyses"} =>
        /\ ~root_exists => result'.status = "not_mounted" /\ FailedBeforeAnyFile
        /\ (root_exists /\ ~dir_exists[PeriodDirectory(result')])
              => result'.status = "dir_not_found" /\ FailedBeforeAnyFile
        /\ result'.status \in {"not_mounted", "dir_not_found"}
              => ~root_exists \/ ~dir_exists[PeriodDirectory(result')]

\* C19: load_task_notes and collect_weekly_analyses check the backend root
\* before the period subdirectory: an absent root yields the not-mounted
\* error and, with the root present, an absent period (daily) subdirectory
\* yields the directory-not-found error; in both cases the call fails before
\* any file is read, created or written.
C19_MissingDirectory == [][C19_Step]_vars

\* C19 witness: collect_weekly_analyses failed for want of the daily
\* directory, and the weekly directory, absent too, was not created.
C19_Witness ==
    /\ result.op = "collect_weekly_analyses"
    /\ result.status = "dir_not_found"
    /\ root_exists
    /\ ~dir_exists[daily]
    /\ ~dir_exists[weekly]

\* the extensions of the recognized text and visual-document kinds
RecognizedKinds ==
    {<<".","t","x","t">>, <<".","p","n","g">>, <<".","j","p","g">>,
     <<".","j","p","e","g">>, <<".","g","i","f">>, <<".","w","e","b","p">>,
     <<".","p","d","f">>}

\* C20 as stated: the candidates of load_task_notes are the files of the
\* period directory with the extension .txt, .png, .jpg, .jpeg, .gif, .webp or
\* .pdf: the note it returns is the greatest unanalyzed one among them, and it
\* reports that nothing is left to analyze only when none of them is
\* unanalyzed, so an unanalyzed .pdf note is discovered like any other.
C20_RecognizedKinds ==
    /\ LoadReturned => ReturnedGreatest(RecognizedKinds)
    /\ (result.op = "load_task_notes" /\ result.status = "no_unanalyzed")
          => Unanalyzed(result.notes_type, RecognizedKinds) = {}

\* the name signals an analysis output
SignalsAnalysis(name) == contains(name, <<"_","a","n","a","l","y","s","i","s">>)

\* C21: load_task_notes never takes an analysis output for a note, for any
\* sequence of loads and saves: the file it returns has no "_analysis" in its
\* name, it reads and extracts no such file, and when it fails to parse a
\* name, the name is that of a note, not of an analysis output.
C21_OutputsNeverInputs ==
    /\ (LoadReturned \/ TaskerLoadReturned) => ~SignalsAnalysis(result.path[2])
    /\ result.op \in {"load_task_notes", "tasker_load_task_notes"} =>
          /\ \A i \in 1..Len(result.read) : ~SignalsAnalysis(result.read[i])
          /\ \A i \in 1..Len(result.extracted) : ~SignalsAnalysis(result.extracted[i])
    /\ (result.op = "load_task_notes" /\ result.status = "ValueError") =>
          /\ Unanalyzed(result.notes_type, ALL_EXTENSIONS) # {}
          /\ ~strptime(stem(FirstUnanalyzed(result.notes_type))).ok

\* C21 witness: a note was returned although an analysis that save_analysis
\* wrote, with a greater name, is in the directory.
C21_Witness ==
    /\ LoadReturned
    /\ \E a \in DOMAIN files[result.notes_type] :
          /\ SignalsAnalysis(a)
          /\ str_lt(result.path[2], a)
          /\ files[result.notes_type][a] \in WrittenReports(result.notes_type)

\* the instants at which a window is compared with the one of the call: the
\* days from 40 days before to 40 days after 2025-01-15, at 10:30
ProbeInstants == {minus_days(datetime(2025, 1, 15, 10, 30, 0, 0), k) : k \in -40..40}

\* the name {YYYYMMDD}.week.txt of a window start
WeekFileName(week_start) ==
    zpad(week_start.year, 4) \o zpad(week_start.month, 2) \o zpad(week_start.day, 2)
        \o <<".","w","e","e","k",".","t","x","t">>

\* C22: the weekly output path that collect_weekly_analyses returns is
\* weekly/{week_start as YYYYMMDD}.week.txt whatever daily files were
\* collected, and the window of any other instant gives the same path exactly
\* when it starts at the same instant: equal windows give equal paths,
\* distinct windows distinct paths.
C22_OutputIdentifier ==
    (CollectRan /\ result.status = "ok") =>
        /\ result.path = <<weekly, WeekFileName(result.week_start)>>
        /\ \A t \in ProbeInstants :
              (week_window(t).week_start = result.week_start)
                 <=> (weekly_output_path(week_window(t).week_start) = result.path)

\* C22 witness: a roll-up of two daily analyses of the week of 2025-01-06
\* returned weekly/20250106.week.txt.
C22_Witness ==
    /\ CollectRan
    /\ result.status = "ok"
    /\ Len(result.read) = 2
    /\ result.path[2] = <<"2","0","2","5","0","1","0","6",".","w","e","e","k",".","t","x","t">>

\* a call of collect_weekly_analyses that finds the root and the daily
\* directory leaves the weekly directory present, either returns or fails
\* for want of records, and changes neither the daily directory nor any file
C23_Step ==
    (/\ result'.op = "collect_weekly_analyses"
     /\ root_exists
     /\ dir_exists[daily])
        => /\ dir_exists'[weekly]
           /\ dir_exists'[daily]
           /\ result'.status \in {"ok", "no_daily_analyses"}
           /\ files' = files

\* C23: whenever collect_weekly_analyses gets past the root and
\* daily-directory checks the weekly directory exists afterwards: it is
\* created if absent, an existing one is no error and keeps its contents,
\* also when the call then fails because no record falls in the window.
C23_OutputDirectory == [][C23_Step]_vars

\* C23 witness: the roll-up failed for want of records in the window, the
\* weekly directory is there and holds a weekly analysis saved earlier.
C23_Witness ==
    /\ result.op = "collect_weekly_analyses"
    /\ result.status = "no_daily_analyses"
    /\ dir_exists[weekly]
    /\ DOMAIN files[weekly] # {}

----------------------------------------------------------------------------
(* Configuration: the notes source (tasktriage/config.py) and the API key  *)
(* (tasker/config.py, tasker/tasker.py).                                   *)

\* faulty variant: the environment wins over the argument
fetch_api_key_env_first(api_key, e) ==
    IF truthy(e.ANTHROPIC_API_KEY)
    THEN [ok |-> TRUE, key |-> e.ANTHROPIC_API_KEY.value]
    ELSE IF truthy(api_key)
    THEN [ok |-> TRUE, key |-> api_key.value]
    ELSE [ok |-> FALSE, key |-> <<>>]

(* fetch_api_key of tasker/config.py                                       *)
fetch_api_key(api_key, e) ==
    IF truthy(api_key)
    THEN [ok |-> TRUE, key |-> api_key.value]
    ELSE LET env_key == e.ANTHROPIC_API_KEY
         IN  IF ~truthy(env_key)
             THEN [ok |-> FALSE, key |-> <<>>]
             ELSE [ok |-> TRUE, key |-> env_key.value]

(* fetch_api_key of tasker/tasker.py                                       *)
tasker_fetch_api_key(api_key, e) ==
    IF truthy(api_key)
    THEN [ok |-> TRUE, key |-> api_key.value]
    ELSE LET env_key == e.ANTHROPIC_API_KEY
         IN  IF ~truthy(env_key)
             THEN [ok |-> FALSE, key |-> <<>>]
             ELSE [ok |-> TRUE, key |-> env_key.value]

Sources == {auto, local, usb, gdrive}

DirStates == {"unset", "missing", "exists"}

DirectKey == <<"k", "1">>

EnvKey == <<"k", "2">>

ApiKeyArguments == {None, Some(<<>>), Some(DirectKey)}

ApiKeyEnvironment == {None, Some(<<>>), Some(EnvKey)}

InitConfig ==
    /\ now = datetime(2025, 1, 15, 10, 30, 0, 0)
    /\ root_exists = FALSE
    /\ dir_exists = [d \in NotesTypes |-> FALSE]
    /\ files = [d \in NotesTypes |-> EmptyDir]
    /\ result = NoResult
    /\ cli = NoCli
    /\ session = NoSession
    /\ rounds = <<>>
    /\ run = NoRun
    /\ loading = NoLoading
    /\ \E s \in Sources, l \in DirStates, u \in DirStates,
          id \in BOOLEAN, secret \in BOOLEAN, folder \in BOOLEAN,
          k \in ApiKeyEnvironment :
          environ = [NoEnviron EXCEPT !.NOTES_SOURCE = s,
                                      !.LOCAL_INPUT_DIR = l,
                                      !.EXTERNAL_INPUT_DIR = u,
                                      !.GOOGLE_OAUTH_CLIENT_ID = id,
                                      !.GOOGLE_OAUTH_CLIENT_SECRET = secret,
                                      !.GOOGLE_DRIVE_FOLDER_ID = folder,
                                      !.ANTHROPIC_API_KEY = k]

GetActiveSource ==
    /\ result' = LET r == get_active_source(environ)
                 IN  [NoResult EXCEPT
                         !.op = "get_active_source",
                         !.status = IF r.ok THEN "ok" ELSE "ValueError",
                         !.text = r.source]
    /\ UNCHANGED <<root_exists, dir_exists, files, now, cli, environ, session, rounds, run, loading>>

FetchApiKey(api_key) ==
    /\ result' = LET r == fetch_api_key(api_key, environ)
                 IN  [NoResult EXCEPT
                         !.op = "fetch_api_key",
                         !.status = IF r.ok THEN "ok" ELSE "ValueError",
                         !.text = r.key,
                         !.api_key = api_key]
    /\ UNCHANGED <<root_exists, dir_exists, files, now, cli, environ, session, rounds, run, loading>>

TaskerFetchApiKey(api_key) ==
    /\ result' = LET r == tasker_fetch_api_key(api_key, environ)
                 IN  [NoResult EXCEPT
                         !.op = "tasker_fetch_api_key",
                         !.status = IF r.ok THEN "ok" ELSE "ValueError",
                         !.text = r.key,
                         !.api_key = api_key]
    /\ UNCHANGED <<root_exists, dir_exists, files, now, cli, environ, session, rounds, run, loading>>

NextConfig ==
    \/ GetActiveSource
    \/ \E api_key \in ApiKeyArguments : FetchApiKey(api_key)
    \/ \E api_key \in ApiKeyArguments : TaskerFetchApiKey(api_key)

SpecConfig == InitConfig /\ [][NextConfig]_vars

(* The backends and their availability, as the contract names them.        *)
Backends == <<local, usb, gdrive>>

Available(e, b) ==
    CASE b = local  -> e.LOCAL_INPUT_DIR = "exists"
      [] b = usb    -> e.EXTERNAL_INPUT_DIR = "exists"
      [] b = gdrive -> /\ e.GOOGLE_OAUTH_CLIENT_ID
                       /\ e.GOOGLE_OAUTH_CLIENT_SECRET
                       /\ e.GOOGLE_DRIVE_FOLDER_ID

FirstAvailable(e) ==
    LET I == {i \in 1..Len(Backends) : Available(e, Backends[i])}
    IN  IF I = {} THEN 0 ELSE CHOOSE i \in I : \A j \in I : i <= j

\* C24: get_active_source returns the requested backend when it is
\* available and fails when it is not; in auto mode it returns the first
\* available of local, usb, gdrive (usb before gdrive) and fails when none
\* is available; the call changes nothing but its own outcome.
C24_Step ==
    result'.op = "get_active_source" =>
        /\ UNCHANGED <<root_exists, dir_exists, files, now, cli, environ,
                       session, rounds, run, loading>>
        /\ IF environ.NOTES_SOURCE # auto
           THEN IF Available(environ, environ.NOTES_SOURCE)
                THEN /\ result'.status = "ok"
                     /\ result'.text = environ.NOTES_SOURCE
                ELSE result'.status = "ValueError"
           ELSE IF FirstAvailable(environ) = 0
                THEN result'.status = "ValueError"
                ELSE /\ result'.status = "ok"
                     /\ result'.text = Backends[FirstAvailable(environ)]

C24_SourceResolution == [][C24_Step]_vars

C24_Witness ==
    /\ result.op = "get_active_source"
    /\ environ.NOTES_SOURCE = auto
    /\ ~Available(environ, local)
    /\ Available(environ, usb)
    /\ Available(environ, gdrive)
    /\ result.status = "ok"
    /\ result.text = usb

\* C26: fetch_api_key returns the key it is given whenever one is given,
\* whatever the environment holds; otherwise the ANTHROPIC_API_KEY value of
\* the environment; and it raises ValueError when neither is available.
C26_ApiKeyResolution ==
    result.op \in {"fetch_api_key", "tasker_fetch_api_key"} =>
        IF result.api_key.given /\ result.api_key.value # <<>>
        THEN result.status = "ok" /\ result.text = result.api_key.value
        ELSE IF /\ environ.ANTHROPIC_API_KEY.given
                /\ environ.ANTHROPIC_API_KEY.value # <<>>
        THEN /\ result.status = "ok"
             /\ result.text = environ.ANTHROPIC_API_KEY.value
        ELSE result.status = "ValueError"

C26_Witness ==
    /\ result.op = "fetch_api_key"
    /\ result.api_key = Some(DirectKey)
    /\ environ.ANTHROPIC_API_KEY = Some(EnvKey)
    /\ result.status = "ok"
    /\ result.text = DirectKey

----------------------------------------------------------------------------
(* The Actions section of the Streamlit control panel                      *)
(* (tasktriage/streamlit_ui/panels.py, render_actions_section).            *)

(* The message the Sync handler shows for the statistics of a sync.        *)
sync_message(stats) ==
    IF stats.total = 0 /\ stats.converted = 0
    THEN "warning"
    ELSE IF stats.synced > 0 \/ stats.converted > 0
    THEN "success"
    ELSE "info"

(* The body of 'if st.button("Sync", ...)': the session state it leaves.   *)
(* outcome is what sync_files_across_directories does: it returns its      *)
(* statistics or an exception leaves the script.                           *)
sync_handler(s, e, outcome) ==
    LET started == [s EXCEPT !.sync_disabled = TRUE, !.handled = "sync",
                             !.errors_shown = FALSE, !.stats = NoStats]
    IN  IF ~truthy(e.LOCAL_OUTPUT_DIR)
        THEN [started EXCEPT !.shown = "error"]
        ELSE IF outcome.raised
        THEN [started EXCEPT !.shown = "exception"]
        ELSE [started EXCEPT
                 !.stats = outcome.stats,
                 !.shown = sync_message(outcome.stats),
                 !.errors_shown = /\ sync_message(outcome.stats) # "warning"
                                  /\ outcome.stats.errors > 0,
                 !.sync_disabled = FALSE]

MaxSynced == 2

MaxConverted == 1

MaxErrors == 1

SyncStats ==
    {st \in [total : 0..MaxSynced, synced : 0..MaxSynced,
             converted : 0..MaxConverted, errors : 0..MaxErrors] :
        st.synced <= st.total}

SyncOutcomes ==
    {[raised |-> TRUE, stats |-> NoStats]}
        \cup {[raised |-> FALSE, stats |-> st] : st \in SyncStats}

OutputDir == <<"o", "u", "t">>

InitUi ==
    /\ now = datetime(2025, 1, 15, 10, 30, 0, 0)
    /\ root_exists = FALSE
    /\ dir_exists = [d \in NotesTypes |-> FALSE]
    /\ files = [d \in NotesTypes |-> EmptyDir]
    /\ result = NoResult
    /\ cli = NoCli
    /\ \E o \in {None, Some(<<>>), Some(OutputDir)} :
          environ = [NoEnviron EXCEPT !.LOCAL_OUTPUT_DIR = o]
    /\ \E n \in BOOLEAN, t \in BOOLEAN :
          session = [NoSession EXCEPT !.notes_dir = n, !.triage_disabled = t]
    /\ rounds = <<>>
    /\ run = NoRun
    /\ loading = NoLoading

(* A click on Sync: the button is rendered with disabled=sync_disabled, so *)
(* the click arrives only when it was enabled.                             *)
SyncClick(outcome) ==
    /\ ~(session.sync_disabled \/ ~session.notes_dir)
    /\ session' = sync_handler(session, environ, outcome)
    /\ UNCHANGED <<root_exists, dir_exists, files, now, result, cli, environ, rounds, run, loading>>

(* A click on Analyze.                                                     *)
AnalyzeClick ==
    /\ ~(session.triage_disabled \/ ~session.notes_dir)
    /\ session' = [session EXCEPT !.triage_running = TRUE,
                                  !.handled = "analyze"]
    /\ UNCHANGED <<root_exists, dir_exists, files, now, result, cli, environ, rounds, run, loading>>

(* render_triage_progress: a script run with triage_running set runs the   *)
(* pipeline; when run_triage_pipeline raises, the flag stays set.          *)
TriageRun(raised, total_failed) ==
    /\ session.triage_running
    /\ session' = IF raised
                  THEN [session EXCEPT !.shown = "exception"]
                  ELSE [session EXCEPT
                           !.triage_running = FALSE,
                           !.shown = IF total_failed = 0 THEN "triage_success"
                                     ELSE "triage_warning"]
    /\ UNCHANGED <<root_exists, dir_exists, files, now, result, cli, environ, rounds, run, loading>>

NextUi ==
    \/ \E outcome \in SyncOutcomes : SyncClick(outcome)
    \/ AnalyzeClick
    \/ \E raised \in BOOLEAN, total_failed \in 0..1 : TriageRun(raised, total_failed)

SpecUi == InitUi /\ [][NextUi]_vars

\* C30: handling a Sync click always ends with sync_disabled false again,
\* on every path through the handler, including the one where
\* LOCAL_OUTPUT_DIR is not configured.
C30_SyncReenabled ==
    session.handled = "sync" => session.sync_disabled = FALSE

\* the extension of the name, lower-cased, is an image kind
ImageKind(name) ==
    \E e \in IMAGE_EXTENSIONS :
        /\ Len(name) >= Len(e)
        /\ \A i \in 1..Len(e) : lower(name[Len(name) - Len(e) + i]) = e[i]

\* what the text extractor may hand back
ExtractedTexts == {o.text : o \in {x \in OcrOutcomes : x.ok}}

\* what a call reads and what it hands to the text extractor
C25_Routing ==
    result.op = "load_task_notes" =>
        /\ LoadReturned =>
              LET n == result.path[2]
              IN  IF ImageKind(n)
                  THEN /\ result.extracted = <<n>>
                       /\ result.read = <<>>
                       /\ result.text \in ExtractedTexts
                  ELSE /\ result.read = <<n>>
                       /\ result.extracted = <<>>
                       /\ result.text = files[result.notes_type][n]
        /\ Len(result.extracted) <= 1
        /\ \A i \in 1..Len(result.extracted) : ImageKind(result.extracted[i])
        /\ result.status = "extracting" =>
              /\ Len(result.extracted) = 1
              /\ result.read = <<>>
              /\ ExpectedAnalysisName(result.extracted[1], result.notes_type)
                    \notin DOMAIN files[result.notes_type]

\* C25: for the note it returns, load_task_notes hands the path to the text
\* extractor exactly once when the extension is an image kind and returns the
\* extracted text, and otherwise reads the file as plain text without calling
\* the extractor; the extractor is never called for a file whose analysis
\* already exists when the call examines the directory.
C25_ContentRouting == [](C25_Routing) /\ [][ReturnsSelected]_vars

\* C25 witness: an image was extracted and returned while a greater-named
\* image, whose analysis exists, was skipped.
C25_Witness ==
    /\ LoadReturned
    /\ ImageKind(result.path[2])
    /\ result.extracted = <<result.path[2]>>
    /\ \E G \in DOMAIN files[result.notes_type] :
          /\ ImageKind(G)
          /\ str_lt(result.path[2], G)
          /\ ExpectedAnalysisName(G, result.notes_type)
                \in DOMAIN files[result.notes_type]

----------------------------------------------------------------------------------------------------------------------------------------
(* The daily loop: load_task_notes of tasker/files.py and save_analysis on *)
(* the note it returned, again and again; or main() of tasker/tasker.py    *)
(* with --type daily, run after run.                                       *)

\* well-formed note names with pairwise distinct stems
LoopNames == {Note_Mon_jpg, Note_Tue_txt, Note_Example_png, Note_Sun_txt,
              Note_NextMon_txt}

\* the runs of main() in which analyze_tasks may raise
MaxAbandoned == 1

InitLoop ==
    /\ now = datetime(2025, 1, 15, 10, 30, 0, 0)
    /\ root_exists = TRUE
    /\ dir_exists = [d \in NotesTypes |-> TRUE]
    /\ \E Names \in SUBSET LoopNames :
          files = [d \in NotesTypes |->
                      IF d = daily
                      THEN [n \in Names |-> InitialContent(n)]
                      ELSE EmptyDir]
    /\ result = NoResult
    /\ cli = NoCli
    /\ environ = NoEnviron
    /\ session = NoSession
    /\ rounds = <<>>
    /\ run = NoRun
    /\ loading = NoLoading

\* a round: the note that was loaded, by which loader, and whether its
\* analysis was saved ("loaded" while the round is open)
round(note, by) == [note |-> note, by |-> by, state |-> "loaded"]

\* the last round is closed
closed(rs, state) == [rs EXCEPT ![Len(rs)].state = state]

\* the rounds in which analyze_tasks raised
abandoned(rs) == {i \in 1..Len(rs) : rs[i].state = "abandoned"}

\* the loop calls load_task_notes("daily") of tasker/files.py
LoopLoad ==
    /\ result.op \in {"none", "save_analysis"}
    /\ load_begin(daily)
    /\ rounds' = IF result'.status = "ok"
                 THEN Append(rounds, round(result'.path[2], "load_task_notes"))
                 ELSE rounds
    /\ UNCHANGED <<root_exists, dir_exists, files, now, cli, environ, session, run>>

\* extract_text_from_image returns or raises in that call
LoopLoadEnd(ocr) ==
    /\ load_end(ocr)
    /\ rounds' = IF result'.status = "ok"
                 THEN Append(rounds, round(result'.path[2], "load_task_notes"))
                 ELSE rounds
    /\ UNCHANGED <<root_exists, dir_exists, files, now, cli, environ, session, run>>

\* the loop calls save_analysis of tasker/files.py on the note that was
\* returned
LoopSave(analysis) ==
    /\ result.op = "load_task_notes"
    /\ result.status = "ok"
    /\ result' = save_analysis(analysis, result.path, daily)
    /\ files' = save_analysis_files(analysis, result.path, daily)
    /\ rounds' = closed(rounds, "saved")
    /\ UNCHANGED <<root_exists, dir_exists, now, cli, environ, session, run, loading>>

\* a run of main() --type daily starts
LoopMainBegin ==
    /\ result.op \in {"none", "main"}
    /\ main_begin(daily, tasker_load_task_notes(daily))
    /\ rounds' = IF run'.active
                 THEN Append(rounds, round(run'.loaded.path[2], "main"))
                 ELSE rounds

\* analyze_tasks returns or raises in that run
LoopMainEnd(llm) ==
    /\ llm.ok \/ Cardinality(abandoned(rounds)) < MaxAbandoned
    /\ main_end(llm)
    /\ rounds' = closed(rounds, IF llm.ok THEN "saved" ELSE "abandoned")

NextLoop ==
    \/ LoopLoad
    \/ \E ocr \in OcrOutcomes : LoopLoadEnd(ocr)
    \/ \E analysis \in Bodies : LoopSave(analysis)
    \/ LoopMainBegin
    \/ \E llm \in LlmOutcomes : LoopMainEnd(llm)

SpecLoop == InitLoop /\ [][NextLoop]_vars

\* the loader the loop runs
LoopLoader ==
    IF rounds # <<>> THEN rounds[1].by
    ELSE IF result.op = "main" THEN "main" ELSE "load_task_notes"

\* the notes of the daily directory a loader looks at: tasker.py globs *.txt
\* only
NotesOf(by) ==
    {n \in DOMAIN files[daily] :
        /\ ~SignalsAnalysis(n)
        /\ by = "main" => \E e \in TEXT_EXTENSIONS : endswith(n, e)}

LoopNotes == NotesOf(LoopLoader)

\* the notes whose round was closed with save_analysis
SavedNotes == {rounds[i].note : i \in {k \in 1..Len(rounds) : rounds[k].state = "saved"}}

\* the load of the loop failed with the no-unanalyzed error
LoopEnded(r) ==
    /\ r.op \in {"load_task_notes", "main"}
    /\ r.status = "no_unanalyzed"

C27_Inv ==
    /\ \A i \in 1..Len(rounds) : \A j \in 1..Len(rounds) :
          i < j => IF rounds[i].state = "saved"
                   THEN str_lt(rounds[j].note, rounds[i].note)
                   ELSE IF j = i + 1
                   THEN rounds[j].note = rounds[i].note
                   ELSE ~str_lt(rounds[i].note, rounds[j].note)
    /\ \A i \in 1..Len(rounds) : rounds[i].note \in LoopNotes
    /\ result.status # "ValueError"
    /\ LoopEnded(result) =>
          /\ SavedNotes = LoopNotes
          /\ Cardinality({i \in 1..Len(rounds) : rounds[i].state = "saved"})
                = Cardinality(LoopNotes)

\* a load of the loop: the no-unanalyzed error once every note was saved,
\* otherwise the greatest note not saved yet (or the text extractor raised)
C27_Step ==
    (/\ result'.op \in {"load_task_notes", "main"}
     /\ result'.status \in {"ok", "analyzing", "no_unanalyzed", "extract_error"}
     /\ ~run.active
     /\ result'.status = "ok" => result'.op = "load_task_notes")
        => IF SavedNotes = NotesOf(result'.op)
           THEN LoopEnded(result') /\ rounds' = rounds
           ELSE \/ /\ Len(rounds') = Len(rounds) + 1
                   /\ rounds'[Len(rounds')].note \in NotesOf(result'.op) \ SavedNotes
                   /\ \A n \in NotesOf(result'.op) \ SavedNotes :
                         \/ n = rounds'[Len(rounds')].note
                         \/ str_lt(n, rounds'[Len(rounds')].note)
                \/ result'.status = "extract_error" /\ rounds' = rounds

\* C27: from a directory of well-formed notes with pairwise distinct stems,
\* repeating load_task_notes and save_analysis on the returned note returns
\* each note exactly once, in strictly descending filename order, and after
\* as many rounds as there are notes the next load fails with the
\* no-unanalyzed error.  (A run of main() in which analyze_tasks raises saves
\* nothing, and the next run loads the same note again.)
C27_DailyLoop == [](C27_Inv) /\ [][C27_Step]_vars

\* C27 witness: the loop of tasker/files.py ended after four rounds over text
\* notes and images.
C27_Witness ==
    /\ result.op = "load_task_notes"
    /\ result.status = "no_unanalyzed"
    /\ Len(rounds) = 4
    /\ \A i \in 1..4 : rounds[i].state = "saved"
    /\ \E i \in 1..4 : ImageKind(rounds[i].note)
    /\ \E i \in 1..4 : ~ImageKind(rounds[i].note)

----------------------------------------------------------------------------
(* The weekly roll-up while the clock advances.                            *)

\* the times of day the clock shows: the first and the last instant of a day
\* and one in between
ClockTimes == <<[hour |-> 0, minute |-> 0, second |-> 0, microsecond |-> 0],
                [hour |-> 10, minute |-> 30, second |-> 0, microsecond |-> 0],
                [hour |-> 23, minute |-> 59, second |-> 59,
                 microsecond |-> 999999]>>

at_time(dt, i) ==
    [dt EXCEPT !.hour = ClockTimes[i].hour, !.minute = ClockTimes[i].minute,
               !.second = ClockTimes[i].second,
               !.microsecond = ClockTimes[i].microsecond]

\* Saturday 2024-12-28, and the number of days the clock runs
ClockStart == datetime(2024, 12, 28, 0, 0, 0, 0)

ClockDays == 17

InitClock ==
    /\ now = ClockStart
    /\ root_exists = TRUE
    /\ dir_exists = [d \in NotesTypes |-> d = daily]
    /\ files = [d \in NotesTypes |->
                   IF d = daily
                   THEN [n \in {Analysis_Tue} |-> InitialContent(n)]
                   ELSE EmptyDir]
    /\ result = NoResult
    /\ cli = NoCli
    /\ environ = NoEnviron
    /\ session = NoSession
    /\ rounds = <<>>
    /\ run = NoRun
    /\ loading = NoLoading

\* the clock moves to the next of its times, or to the first one of the
\* next day
ClockTick ==
    /\ LET i == CHOOSE k \in 1..Len(ClockTimes) : at_time(now, k) = now
       IN  IF i < Len(ClockTimes)
           THEN now' = at_time(now, i + 1)
           ELSE /\ toordinal(now) - toordinal(ClockStart) < ClockDays
                /\ now' = at_time(minus_days(now, 0 - 1), 1)
    /\ UNCHANGED <<root_exists, dir_exists, files, result, cli, environ,
                   session, rounds, run, loading>>

NextClock ==
    \/ ClockTick
    \/ Collect

SpecClock == InitClock /\ [][NextClock]_vars

\* the instants at which a window is compared with the one of the call
ClockProbes ==
    {at_time(minus_days(ClockStart, 0 - k), i) :
        k \in (0 - 10)..(ClockDays + 10), i \in 1..Len(ClockTimes)}

\* the timestamps daily files may carry: the first and the last second of
\* each day
DailyStamps ==
    {[at_time(minus_days(ClockStart, 0 - k), i) EXCEPT !.microsecond = 0] :
        k \in 0..ClockDays, i \in {1, 3}}

\* the window of each of these instants, and the windows there are
ProbeWindowAt == [t \in ClockProbes |-> week_window(t)]

ProbeWindows == {ProbeWindowAt[t] : t \in ClockProbes}

\* the windows a daily timestamp lies in
StampWindows == [d \in DailyStamps |-> {w \in ProbeWindows : in_window(d, w)}]

Disjoint(v, w) == dt_lt(v.week_end, w.week_start) \/ dt_lt(w.week_end, v.week_start)

ResultWindow == [week_start |-> result.week_start, week_end |-> result.week_end]

C28_Inv ==
    CollectRan =>
        /\ \A w \in ProbeWindows :
              /\ w = ResultWindow \/ Disjoint(w, ResultWindow)
              /\ (weekly_output_path(w.week_start)
                     = weekly_output_path(result.week_start))
                    <=> w = ResultWindow
        /\ \A t \in ClockProbes :
              dt_le(result.today, t)
                 => dt_le(result.week_start, ProbeWindowAt[t].week_start)
        /\ \A d \in DailyStamps :
              LET W == StampWindows[d] \cup
                          {w \in {ResultWindow} : in_window(d, w)}
              IN  /\ Cardinality(W) = 1
                  /\ Cardinality({weekly_output_path(w.week_start) : w \in W}) = 1

C28_Step ==
    /\ LET delta == toordinal(week_window(now').week_start)
                       - toordinal(week_window(now).week_start)
       IN  delta \in {0, 7}
    /\ (CollectRan /\ CollectRan') =>
          LET delta == toordinal(result'.week_start) - toordinal(result.week_start)
          IN  /\ delta >= 0
              /\ delta % 7 = 0
              /\ toordinal(result'.today) - toordinal(result.today) < 7
                    => delta \in {0, 7}

\* C28: the windows collect_weekly_analyses computes at any two instants are
\* identical or disjoint; as now advances the window start never moves back
\* and advances by exactly 7 days at a time; every daily timestamp lies in
\* exactly one window and so belongs to exactly one weekly output path.
C28_WindowsPartition == [](C28_Inv) /\ [][C28_Step]_vars

\* C28 witness: the roll-up ran in the last instant of a Sunday, and the
\* clock has moved on to the Monday after it.
C28_Witness ==
    /\ CollectRan
    /\ weekday(result.today) = 6
    /\ result.week_end = result.today
    /\ weekday(now) = 0
    /\ week_window(now) = ResultWindow

\* the extensions a loader looks at
LoaderExtensions(op) ==
    IF op = "load_task_notes" THEN ALL_EXTENSIONS ELSE TEXT_EXTENSIONS

\* C29 as stated: load_task_notes raises the filename parse error only for
\* the file it is about to return (the greatest-named note without an
\* analysis); a malformed-named file never makes the load fail while a
\* well-formed note without an analysis exists: such a note is returned, so
\* in particular the load does not end in the parse error.
C29_ParseFailureScope ==
    result.op \in {"load_task_notes", "tasker_load_task_notes"} =>
        LET U == Unanalyzed(result.notes_type, LoaderExtensions(result.op))
        IN  /\ result.status = "ValueError" =>
                  /\ U # {}
                  /\ \E G \in U :
                        /\ \A n \in U : n = G \/ str_lt(n, G)
                        /\ ~strptime(stem(G)).ok
            /\ (\E n \in U : ValidStampNote(n)) => result.status # "ValueError"
====
